---------------------------- MODULE Spec2Model ----------------------------
(***************************************************************************)
(* A model of the security guardrail pipeline of saraclaw:                 *)
(*   - SandboxEnforcer      (src/src/shield/sandbox-enforcer.ts)           *)
(*   - NetworkJail, ContentFilter (src/src/heart/insights-detector.ts)     *)
(*   - SafeBrowserExecutor  (src/unnamed/part_006)                         *)
(*   - TheCensor, SecurityAuditLog (src/src/shield/security-audit-log.ts)  *)
(*   - the pattern catalog  (src/src/shield/patterns.ts)                   *)
(*   - Echo                 (src/src/gateway/echo.ts)                      *)
(*   - runIntegratedPulse   (src/src/heart/pulse.ts)                       *)
(* Strings the code inspects character by character are sequences of       *)
(* one-character strings.  Each component has its own specification, which *)
(* leaves the variables of the other components unchanged.                 *)
(***************************************************************************)
EXTENDS Integers, Sequences, FiniteSets, TLC

VARIABLES
    \* SandboxEnforcer
    sbConfig,           \* this.config
    activeContainers,   \* this.activeContainers
    execs,              \* one record per call of execute()
    docker,             \* the container runtime: name -> container
    cleanupCalls,       \* history: name -> number of cleanup(name) calls
    cleanupAllPc,       \* position of a cleanupAll() call
    cleanupAllRuns,     \* history: number of cleanupAll() calls made
    \* SafeBrowserExecutor and its ContentFilter
    requestCount,       \* this.requestCount: minute, hour, lastReset
    clock,              \* Date.now() in milliseconds
    blockLastIndex,     \* lastIndex of each of sensitiveBlockRegexes
    warnLastIndex,      \* lastIndex of each of sensitiveWarnRegexes
    navs,               \* one record per call of navigate() or search()
    admitted,           \* history: when requests were admitted, and how many
    \* TheCensor and its SecurityAuditLog
    censorConfig,       \* this.config
    securityLog,        \* whether this.securityLog was created
    sessionId,          \* this.sessionId
    censorMadeBy,       \* "TheCensor" or "censorMiddleware"
    scanCount,          \* this.scanCount
    redactionCount,     \* this.redactionCount
    entryCount,         \* this.securityLog.entryCount
    auditFile,          \* the lines of the audit log file
    scans,              \* history: one record per call of censor()
    \* A SecurityAuditLog used on its own, and the log directory
    logDir,             \* the log directory: "present", "absent", "blocked"
    auditLog,           \* the SecurityAuditLog: whether it was made, its config
    today,              \* the date, in days
    logFiles,           \* the lines of the log file of each name
    logged,             \* history: the entries log() returned
    recent,             \* history: one record per call of getRecentEntries()
    \* A NetworkJail used on its own
    jail,               \* its config, and the rules generateIptablesRules returned
    \* A ContentFilter used on its own, and the policy document
    policyFile,         \* browser-policy.json, as loadDefaultPolicy finds it
    contentFilter,      \* the ContentFilter: whether it was made, its policy
    filtered,           \* history: one record per call of filterContent()
    \* A PulseStateMachine used on its own
    pulse,              \* the machine: currentState, cycleId, stateSequence
    pulseLog,           \* history: calls made, states passed, last CycleResult
    \* SaraScheduler
    sara,               \* the scheduler: config, state, metrics, cronJob, flags
    saraTimers,         \* pending timers: the interval, the error pauses
    saraClock,          \* Date.now() in ms since the scheduler was made
    saraCalls,          \* where the pending start() and stop() calls stand
    saraLog,            \* history: pulses in flight, ticks, calls, last event
    \* HeartbeatScheduler
    heartbeat,          \* the scheduler: options, stats, timer, pulseMachine
    cycles,             \* the runCycle calls: where each stands, what it left
    heartHour,          \* new Date().getHours()
    heartLog,           \* history: calls of start, stop, the notification
    \* JournalWriter
    journalWriter,      \* the writer: config.dryRun, entriesWritten
    journalFs,          \* the journal directory: whether it exists, its files
    journalClock,       \* seconds since 2026-01-01 00:00 local time
    journalLog,         \* history: one record per call of write()
    \* Whisper
    whisper,            \* the handler: config, its journal writer, counters
    whisperCalls,       \* the process() calls: where each stands, its result
    \* Echo
    echoConfig,         \* this.config
    messageCount,       \* this.messageCount
    \* What leaves the program
    console,            \* the lines written to the console
    delivered           \* the texts handed to a user or channel

sandboxVars == <<sbConfig, activeContainers, execs, docker, cleanupCalls,
                 cleanupAllPc, cleanupAllRuns>>

browserVars == <<requestCount, clock, blockLastIndex, warnLastIndex, navs,
                 admitted>>

censorVars == <<censorConfig, securityLog, sessionId, censorMadeBy, scanCount,
                redactionCount, entryCount, auditFile, scans>>

auditVars == <<logDir, auditLog, today, logFiles, logged, recent>>

gatewayVars == <<echoConfig, messageCount>>

jailVars == <<jail>>

filterVars == <<policyFile, contentFilter, filtered>>

sinkVars == <<console, delivered>>

\* The guardrail pipeline as a whole, left alone by the heart's components
shieldVars == <<sandboxVars, browserVars, censorVars, auditVars, gatewayVars,
    sinkVars, jailVars, filterVars>>

\* The heart: pulse machine, schedulers, journal, whisper
pulseVars == <<pulse, pulseLog>>

saraVars == <<sara, saraTimers, saraClock, saraCalls, saraLog>>

heartbeatVars == <<heartbeat, cycles, heartHour, heartLog>>

journalVars == <<journalWriter, journalFs, journalClock, journalLog>>

whisperVars == <<whisper, whisperCalls>>

heartVars == <<pulseVars, saraVars, heartbeatVars, journalVars, whisperVars>>

notPulse == <<shieldVars, saraVars, heartbeatVars, journalVars, whisperVars>>
notSara == <<shieldVars, pulseVars, heartbeatVars, journalVars, whisperVars>>
notHeartbeat == <<shieldVars, pulseVars, saraVars, journalVars, whisperVars>>
notJournal == <<shieldVars, pulseVars, saraVars, heartbeatVars, whisperVars>>
notWhisper == <<shieldVars, pulseVars, saraVars, heartbeatVars, journalVars>>

vars == <<sandboxVars, browserVars, censorVars, auditVars, gatewayVars, sinkVars,
    jailVars, filterVars, heartVars>>

\* What the operations of each component leave alone
notSandbox == <<browserVars, censorVars, auditVars, gatewayVars, sinkVars,
    jailVars, filterVars, heartVars>>
notBrowser == <<sandboxVars, censorVars, auditVars, gatewayVars, sinkVars,
    jailVars, filterVars, heartVars>>
notCensor == <<sandboxVars, browserVars, auditVars, gatewayVars,
    jailVars, filterVars, heartVars>>
notGateway == <<sandboxVars, browserVars, censorVars, auditVars,
    jailVars, filterVars, heartVars>>
notAudit == <<sandboxVars, browserVars, gatewayVars,
    jailVars, filterVars, heartVars>>

-----------------------------------------------------------------------------
(* Bounds of the model *)

MaxExecs == 2
NumNames == 2
MaxCleanupAll == 1

-----------------------------------------------------------------------------
(* Generic helpers *)

Max(a, b) == IF a >= b THEN a ELSE b
Min(a, b) == IF a <= b THEN a ELSE b

\* { ...a, ...b } for records: the fields of b override those of a
Merge(a, b) == [k \in DOMAIN a |-> IF k \in DOMAIN b THEN b[k] ELSE a[k]]


-----------------------------------------------------------------------------
(* NetworkJail: configuration and rule generation                           *)

PRIVATE_NETWORKS ==
    << "10.0.0.0/8", "172.16.0.0/12", "192.168.0.0/16", "127.0.0.0/8",
       "169.254.0.0/16", "::1/128", "fc00::/7", "fe80::/10", "fd00::/8" >>

DOCKER_METADATA_IPS == << "169.254.169.254", "169.254.170.2" >>

SECURE_DNS_SERVERS == << "1.1.1.1", "1.0.0.1", "9.9.9.9", "8.8.8.8" >>

WEB_PORTS == << "80", "443" >>

DEFAULT_NETWORK_JAIL_CONFIG ==
    [ blockedCIDRs    |-> PRIVATE_NETWORKS,
      dnsServers      |-> SubSeq(SECURE_DNS_SERVERS, 1, 2),
      allowedPorts    |-> WEB_PORTS,
      defaultDeny     |-> FALSE,
      allowICMP       |-> FALSE,
      blockDockerMeta |-> TRUE,
      logBlocked      |-> TRUE ]

\* One iptables rule "-A OUTPUT [-d d] [-p p [--dport dport]] -j j"
Rule(d, p, dport, j) == [d |-> d, p |-> p, dport |-> dport, j |-> j]

RECURSIVE CidrRules(_, _)
CidrRules(cidrs, logBlocked) ==
    IF cidrs = << >> THEN << >>
    ELSE (IF logBlocked THEN << Rule(Head(cidrs), "", "", "LOG") >> ELSE << >>)
         \o << Rule(Head(cidrs), "", "", "DROP") >>
         \o CidrRules(Tail(cidrs), logBlocked)

\* A generateIptablesRules that emits the allow rules and the catch-all
\* deny before the denies of the blocked ranges
generateIptablesRules_AllowFirst(cfg) ==
    (IF cfg.defaultDeny
        THEN [i \in 1..Len(cfg.allowedPorts) |->
                 Rule("", "tcp", cfg.allowedPorts[i], "ACCEPT")]
             \o << Rule("", "", "", "DROP") >>
        ELSE << >>)
    \o CidrRules(cfg.blockedCIDRs, cfg.logBlocked)
    \o (IF cfg.blockDockerMeta
        THEN [i \in 1..Len(DOCKER_METADATA_IPS) |->
                 Rule(DOCKER_METADATA_IPS[i], "", "", "DROP")]
        ELSE << >>)
    \o (IF ~cfg.allowICMP THEN << Rule("", "icmp", "", "DROP") >> ELSE << >>)

generateIptablesRules(cfg) ==
    CidrRules(cfg.blockedCIDRs, cfg.logBlocked)
    \o (IF cfg.blockDockerMeta
        THEN [i \in 1..Len(DOCKER_METADATA_IPS) |->
                 Rule(DOCKER_METADATA_IPS[i], "", "", "DROP")]
        ELSE << >>)
    \o (IF ~cfg.allowICMP THEN << Rule("", "icmp", "", "DROP") >> ELSE << >>)
    \o (IF cfg.defaultDeny
        THEN [i \in 1..Len(cfg.allowedPorts) |->
                 Rule("", "tcp", cfg.allowedPorts[i], "ACCEPT")]
             \o << Rule("", "", "", "DROP") >>
        ELSE << >>)

\* NetworkJail.generateDockerArgs: "--dns <server>" per server, then "--dns-opt ndots:0"
generateDockerArgs(cfg) ==
    [i \in 1..(2 * Len(cfg.dnsServers)) |->
        IF i % 2 = 1 THEN "--dns" ELSE cfg.dnsServers[i \div 2]]
    \o << "--dns-opt", "ndots:0" >>

getDockerNetworkConfig(cfg) ==
    [ iptablesRules |-> generateIptablesRules(cfg),
      dns           |-> cfg.dnsServers,
      networkMode   |-> "bridge",
      dockerArgs    |-> generateDockerArgs(cfg) ]

-----------------------------------------------------------------------------
(* SandboxEnforcer                                                          *)

DEFAULT_SANDBOX_CONFIG ==
    [ image           |-> "alpine:latest",
      timeoutSeconds  |-> 30,
      memoryLimit     |-> "256m",
      cpuLimit        |-> "0.5",
      networkMode     |-> "none",
      removeOnExit    |-> TRUE,
      readOnlyRootFs  |-> TRUE ]

BROWSER_SANDBOX_CONFIG ==
    [ image           |-> "mcr.microsoft.com/playwright:v1.40.0-jammy",
      timeoutSeconds  |-> 120,
      memoryLimit     |-> "2g",
      cpuLimit        |-> "2.0",
      networkMode     |-> "bridge" ]

\* The partial configurations the model passes to updateConfig
ConfigUpdates == { BROWSER_SANDBOX_CONFIG }

\* The partial configurations the model passes to the constructor
InitialConfigs == { [removeOnExit |-> TRUE], [removeOnExit |-> FALSE] }

ExecIds == 1..MaxExecs

\* randomBytes(4).toString('hex'): the model draws from NumNames values
RandomHex == { ToString(i) : i \in 1..NumNames }

\* The values are interchangeable (nothing depends on which one is drawn, only
\* on whether two draws are equal), so a draw is either a value already drawn
\* or the first value not drawn yet.
FreshOrDrawn(i, drawn) ==
    \/ ToString(i) \in drawn
    \/ /\ ToString(i) \notin drawn
       /\ \A j \in 1..(i - 1) : ToString(j) \in drawn

generateContainerName(random) == "sara-sandbox-" \o random

ContainerNames == { generateContainerName(r) : r \in RandomHex }

\* The exit codes a closing "docker run" process reports
ExitCodes == { 0, 137 }

Command == "echo hi"

buildDockerArgs(cfg, containerName, command) ==
    << "run",
       "--name", containerName,
       IF cfg.removeOnExit THEN "--rm=true" ELSE "--rm=false",
       "--memory", cfg.memoryLimit,
       "--cpus", cfg.cpuLimit,
       "--network", cfg.networkMode,
       "--security-opt", "no-new-privileges",
       "--cap-drop", "ALL" >>
    \o (IF cfg.readOnlyRootFs THEN << "--read-only" >> ELSE << >>)
    \o << cfg.image, "/bin/sh", "-c", command >>

NoResult == [exitCode |-> -1, timedOut |-> FALSE, cleanedUp |-> FALSE,
             returned |-> FALSE]

\* The locals of one execute() call, its child process and timer, and what
\* the call has done so far (kills, cleanups, spawns: history for the claims)
IdleExec ==
    [ pc         |-> "idle",
      name       |-> "",
      args       |-> << >>,
      exitCode   |-> -1,
      timedOut   |-> FALSE,
      cleanedUp  |-> FALSE,
      thrown     |-> FALSE,
      proc       |-> "none",
      timer      |-> "none",
      timeoutMs  |-> 0,
      timeoutWon |-> FALSE,
      kills      |-> 0,
      cleanups   |-> 0,
      spawns     |-> 0,
      killFirst  |-> FALSE,
      result     |-> NoResult ]

Absent == [st |-> "absent", owner |-> 0, rm |-> FALSE]

\* The container named n stops running: "--rm=true" removes it
Stopped(c) ==
    IF c.st = "running"
    THEN (IF c.rm THEN Absent ELSE [c EXCEPT !.st = "exited"])
    ELSE c

\* An enforcer that is not used
SandboxIdle ==
    /\ sbConfig = DEFAULT_SANDBOX_CONFIG
    /\ activeContainers = {}
    /\ execs = [e \in ExecIds |-> IdleExec]
    /\ docker = [n \in ContainerNames |-> Absent]
    /\ cleanupCalls = [n \in ContainerNames |-> 0]
    /\ cleanupAllPc = "idle"
    /\ cleanupAllRuns = 0

SandboxInit ==
    /\ sbConfig \in { Merge(DEFAULT_SANDBOX_CONFIG, c) : c \in InitialConfigs }
    /\ activeContainers = {}
    /\ execs = [e \in ExecIds |-> IdleExec]
    /\ docker = [n \in ContainerNames |-> Absent]
    /\ cleanupCalls = [n \in ContainerNames |-> 0]
    /\ cleanupAllPc = "idle"
    /\ cleanupAllRuns = 0

\* What spawn('docker', args) does: it starts the child process, it throws,
\* or it returns a child process that could not be started ("fails": docker
\* is not found or may not be executed) and will emit 'error'
SpawnOutcomes == { "spawned", "throws", "fails" }

\* No uncaught exception has ended the Node process (once it has, nothing
\* of the program runs any more)
Alive == \A e \in ExecIds : execs[e].pc # "crashed"

\* execute(), up to "await Promise.race": the name is generated, the arguments
\* built and docker spawned; spawn either throws (control goes to finally) or
\* yields a child process, after which the name is registered and the timer set.
\* "docker run --name n" creates the container unless the name is taken or
\* the child process could not be started.
\* (Calls are numbered in the order they are made.)
ExecuteStart(e, random, spawn) ==
    /\ Alive
    /\ execs[e].pc = "idle"
    /\ \A d \in ExecIds : d < e => execs[d].pc # "idle"
    /\ \E i \in 1..NumNames :
          /\ random = ToString(i)
          /\ FreshOrDrawn(i, { r \in RandomHex : \E d \in ExecIds :
                                  execs[d].name = generateContainerName(r) })
    /\ LET name == generateContainerName(random)
           args == buildDockerArgs(sbConfig, name, Command)
       IN IF spawn = "throws"
          THEN /\ execs' = [execs EXCEPT ![e] =
                      [@ EXCEPT !.pc = "finally", !.name = name, !.args = args,
                                !.thrown = TRUE, !.spawns = @ + 1]]
               /\ UNCHANGED <<activeContainers, docker>>
          ELSE /\ execs' = [execs EXCEPT ![e] =
                      [@ EXCEPT !.pc = "racing", !.name = name, !.args = args,
                                !.proc = IF spawn = "fails" THEN "failed"
                                         ELSE "running",
                                !.timer = "armed",
                                !.timeoutMs = sbConfig.timeoutSeconds * 1000,
                                !.spawns = @ + 1]]
               /\ activeContainers' = activeContainers \cup {name}
               /\ docker' = IF docker[name].st = "absent" /\ spawn = "spawned"
                            THEN [docker EXCEPT ![name] =
                                    [st |-> "running", owner |-> e,
                                     rm |-> sbConfig.removeOnExit]]
                            ELSE docker
    /\ UNCHANGED <<sbConfig, cleanupCalls, cleanupAllPc, cleanupAllRuns,
                   notSandbox>>

\* The 'error' event of a child process that could not be started, emitted
\* on the next tick.  execute registers no 'error' listener, so emit throws
\* the error: unless the program has an uncaughtException handler ("caught")
\* the Node process ends with the call in flight.  When it is caught the
\* child process never emits 'close' (emit threw before the close was
\* counted) and only the timer can end the race.
SpawnError(e, caught) ==
    /\ Alive
    /\ execs[e].proc = "failed"
    /\ execs' = [execs EXCEPT ![e] =
            IF caught THEN [@ EXCEPT !.proc = "errored"]
            ELSE [@ EXCEPT !.proc = "errored", !.pc = "crashed"]]
    /\ UNCHANGED <<sbConfig, activeContainers, docker, cleanupCalls,
                   cleanupAllPc, cleanupAllRuns,
                   notSandbox>>

\* process.on('close') while the race is open: the child process has ended and
\* its container, if it has one, has stopped; the race is won with the exit
\* code.  (A 'close' after the timeout won resolves a promise nobody awaits.)
\* The "docker ps" lookup that follows the race only sets containerId, which
\* the model does not keep: control is then at the finally block, where the
\* call waits until Cleanup.
ProcessClose(e, code) ==
    /\ Alive
    /\ execs[e].proc = "running"
    /\ execs[e].pc = "racing"
    /\ execs' = [execs EXCEPT ![e] =
            [@ EXCEPT !.proc = "closed", !.exitCode = code, !.pc = "finally"]]
    /\ docker' = [n \in ContainerNames |->
                    IF docker[n].owner = e THEN Stopped(docker[n]) ELSE docker[n]]
    /\ UNCHANGED <<sbConfig, activeContainers, cleanupCalls, cleanupAllPc,
                   cleanupAllRuns,
                   notSandbox>>

\* Timeout as it would be if the timed-out container were merely abandoned
Timeout_Abandon(e) ==
    /\ Alive
    /\ execs[e].timer = "armed"
    /\ execs[e].proc # "failed"
    /\ execs[e].pc \in {"racing", "finally"}
    /\ execs' = [execs EXCEPT ![e] =
            IF @.pc = "racing"
            THEN [@ EXCEPT !.timer = "fired", !.timedOut = TRUE,
                           !.timeoutWon = TRUE, !.pc = "finally"]
            ELSE [@ EXCEPT !.timer = "fired", !.timedOut = TRUE]]
    /\ UNCHANGED <<sbConfig, activeContainers, docker, cleanupCalls,
                   cleanupAllPc, cleanupAllRuns,
                   notSandbox>>

\* The setTimeout callback: timedOut = true; reject.  The timer is never
\* cleared, so it also fires after the race was won by 'close'; once execute
\* has returned its result the late assignment is no longer observable.
Timeout(e) ==
    /\ Alive
    /\ execs[e].timer = "armed"
    /\ execs[e].proc # "failed"
    /\ execs[e].pc \in {"racing", "finally"}
    /\ execs' = [execs EXCEPT ![e] =
            IF @.pc = "racing"
            THEN [@ EXCEPT !.timer = "fired", !.timedOut = TRUE,
                           !.timeoutWon = TRUE, !.pc = "kill"]
            ELSE [@ EXCEPT !.timer = "fired", !.timedOut = TRUE]]
    /\ UNCHANGED <<sbConfig, activeContainers, docker, cleanupCalls,
                   cleanupAllPc, cleanupAllRuns,
                   notSandbox>>

\* catch (error) { await this.killContainer(containerName) }: "docker kill"
\* stops the container of that name if it runs; a failure is swallowed.
KillContainer(e) ==
    /\ Alive
    /\ execs[e].pc = "kill"
    /\ execs' = [execs EXCEPT ![e] =
            [@ EXCEPT !.pc = "finally", !.kills = @ + 1,
                      !.killFirst = (execs[e].cleanups = 0)]]
    /\ docker' = [docker EXCEPT ![execs[e].name] = Stopped(@)]
    /\ UNCHANGED <<sbConfig, activeContainers, cleanupCalls, cleanupAllPc,
                   cleanupAllRuns,
                   notSandbox>>

\* cleanup(name): "docker rm -f name"; true whether or not it succeeds
RemoveContainer(d, name) == [d EXCEPT ![name] = Absent]

\* Cleanup as it would be if the cleanup stood at the end of the try block
\* instead of in finally: a throwing spawn skips it
Cleanup_NotInFinally(e) ==
    /\ Alive
    /\ execs[e].pc = "finally"
    /\ LET name == execs[e].name
       IN IF execs[e].thrown
          THEN /\ execs' = [execs EXCEPT ![e] = [@ EXCEPT !.pc = "rejected"]]
               /\ UNCHANGED <<docker, cleanupCalls, activeContainers>>
          ELSE /\ docker' = [docker EXCEPT ![name] = Absent]
               /\ cleanupCalls' = [cleanupCalls EXCEPT ![name] = @ + 1]
               /\ activeContainers' = activeContainers \ {name}
               /\ execs' = [execs EXCEPT ![e] =
                     [@ EXCEPT !.pc = "done", !.cleanedUp = TRUE,
                               !.cleanups = @ + 1,
                               !.result = [exitCode  |-> execs[e].exitCode,
                                           timedOut  |-> execs[e].timedOut,
                                           cleanedUp |-> TRUE,
                                           returned  |-> TRUE]]]
    /\ UNCHANGED <<sbConfig, cleanupAllPc, cleanupAllRuns,
                   notSandbox>>

\* finally { cleanedUp = await this.cleanup(name); activeContainers.delete(name) }
\* and then either the return of the result or the rethrow of spawn's error.
Cleanup(e) ==
    /\ Alive
    /\ execs[e].pc = "finally"
    /\ LET name == execs[e].name
       IN /\ docker' = RemoveContainer(docker, name)
          /\ cleanupCalls' = [cleanupCalls EXCEPT ![name] = @ + 1]
          /\ activeContainers' = activeContainers \ {name}
          /\ execs' = [execs EXCEPT ![e] =
                IF @.thrown
                THEN [@ EXCEPT !.pc = "rejected", !.cleanedUp = TRUE,
                               !.cleanups = @ + 1]
                ELSE [@ EXCEPT !.pc = "done", !.cleanedUp = TRUE,
                               !.cleanups = @ + 1,
                               !.result = [exitCode  |-> execs[e].exitCode,
                                           timedOut  |-> execs[e].timedOut,
                                           cleanedUp |-> TRUE,
                                           returned  |-> TRUE]]]
    /\ UNCHANGED <<sbConfig, cleanupAllPc, cleanupAllRuns,
                   notSandbox>>

\* cleanupAll(), up to "await Promise.all": cleanup(name) for every active name
CleanupAllStart ==
    /\ Alive
    /\ cleanupAllPc = "idle"
    /\ cleanupAllRuns < MaxCleanupAll
    /\ docker' = [n \in ContainerNames |->
                    IF n \in activeContainers THEN Absent ELSE docker[n]]
    /\ cleanupCalls' = [n \in ContainerNames |->
                    IF n \in activeContainers THEN cleanupCalls[n] + 1
                    ELSE cleanupCalls[n]]
    /\ cleanupAllPc' = "waiting"
    /\ cleanupAllRuns' = cleanupAllRuns + 1
    /\ UNCHANGED <<sbConfig, activeContainers, execs,
                   notSandbox>>

\* cleanupAll(), after the await: this.activeContainers.clear()
CleanupAllFinish ==
    /\ Alive
    /\ cleanupAllPc = "waiting"
    /\ activeContainers' = {}
    /\ cleanupAllPc' = "idle"
    /\ UNCHANGED <<sbConfig, execs, docker, cleanupCalls, cleanupAllRuns,
                   notSandbox>>

\* An updateConfig that reaches the executions in flight: their limits and
\* their timeout follow the new configuration
updateConfig_InFlight(partial) ==
    /\ Alive
    /\ sbConfig' = Merge(sbConfig, partial)
    /\ sbConfig' # sbConfig
    /\ execs' = [e \in ExecIds |->
                    IF execs[e].pc = "racing"
                    THEN [execs[e] EXCEPT
                            !.args = buildDockerArgs(sbConfig', execs[e].name, Command),
                            !.timeoutMs = sbConfig'.timeoutSeconds * 1000]
                    ELSE execs[e]]
    /\ UNCHANGED <<activeContainers, docker, cleanupCalls, cleanupAllPc,
                   cleanupAllRuns,
                   notSandbox>>

updateConfig(partial) ==
    /\ Alive
    /\ sbConfig' = Merge(sbConfig, partial)
    /\ sbConfig' # sbConfig
    /\ UNCHANGED <<activeContainers, execs, docker, cleanupCalls, cleanupAllPc,
                   cleanupAllRuns,
                   notSandbox>>

SandboxNext ==
    \/ \E e \in ExecIds, r \in RandomHex, s \in SpawnOutcomes :
           ExecuteStart(e, r, s)
    \/ \E e \in ExecIds, caught \in BOOLEAN : SpawnError(e, caught)
    \/ \E e \in ExecIds, c \in ExitCodes : ProcessClose(e, c)
    \/ \E e \in ExecIds : Timeout(e)
    \/ \E e \in ExecIds : KillContainer(e)
    \/ \E e \in ExecIds : Cleanup(e)
    \/ CleanupAllStart
    \/ CleanupAllFinish
    \/ \E p \in ConfigUpdates : updateConfig(p)


-----------------------------------------------------------------------------
(* Claims about SandboxEnforcer (specification SandboxSpec)                 *)

Started(e) == execs[e].pc # "idle"
Settled(e) == execs[e].pc \in {"done", "rejected"}

\* s occurs in t as a run of consecutive elements
HasSubSeq(t, s) ==
    \E i \in 0..(Len(t) - Len(s)) : \A j \in 1..Len(s) : t[i + j] = s[j]

\* The value that follows the option opt in a docker argument list
ArgOf(args, opt) ==
    LET i == CHOOSE k \in 1..Len(args) : args[k] = opt IN args[i + 1]

NoNameReuse ==
    \A d, e \in ExecIds :
        (d # e /\ Started(d) /\ Started(e)) => execs[d].name # execs[e].name

\* C2 (as claimed): every execute() call has cleaned up its container exactly
\* once when it returns or rejects, and no container is cleaned up a second
\* time, also not by a cleanupAll() that runs while the call is in flight.
\* Stated for runs in which no two calls drew the same name, so that it does
\* not rest on C10.
C2_CleanupExactlyOnce ==
    NoNameReuse =>
        /\ \A e \in ExecIds : Settled(e) => execs[e].cleanups = 1
        /\ \A n \in ContainerNames : cleanupCalls[n] <= 1

\* C2 (amended): every execute() call invokes cleanup for its own container
\* exactly once, and does so before it returns or rejects, on every exit path;
\* while it is in flight it has not invoked it.  (A container may still be
\* cleaned up again by cleanupAll.)
C2_ExecuteCleansUpOnce ==
    \A e \in ExecIds :
        /\ Settled(e) => (execs[e].cleanups = 1 /\ cleanupCalls[execs[e].name] >= 1)
        /\ ~Settled(e) => execs[e].cleanups = 0
        /\ execs[e].result.returned => execs[e].result.cleanedUp

\* A timed-out call has returned, and cleanupAll cleaned its container up as well
C2_Witness ==
    \E e \in ExecIds :
        /\ execs[e].pc = "done"
        /\ execs[e].timeoutWon
        /\ execs[e].cleanups = 1
        /\ cleanupCalls[execs[e].name] = 2
        /\ NoNameReuse
        /\ \E d \in ExecIds : execs[d].pc = "rejected" /\ execs[d].cleanups = 1

\* C8: a container started with a network mode other than 'none' has been
\* started with the arguments NetworkJail generates for the current
\* configuration (its DNS resolver list)
C8_NetworkReflectsIsolationPlan ==
    \A e \in ExecIds :
        (execs[e].proc # "none" /\ ArgOf(execs[e].args, "--network") # "none")
            => HasSubSeq(execs[e].args,
                         getDockerNetworkConfig(DEFAULT_NETWORK_JAIL_CONFIG).dockerArgs)

C10_UniqueContainerNames == NoNameReuse

\* The limits and the timeout an execution runs under
LimitsOf(exec) ==
    [ memory  |-> ArgOf(exec.args, "--memory"),
      cpus    |-> ArgOf(exec.args, "--cpus"),
      network |-> ArgOf(exec.args, "--network"),
      timeout |-> exec.timeoutMs ]
LimitsIn(cfg) ==
    [ memory  |-> cfg.memoryLimit,
      cpus    |-> cfg.cpuLimit,
      network |-> cfg.networkMode,
      timeout |-> cfg.timeoutSeconds * 1000 ]

\* C25: the memory limit, CPU limit, network mode and timeout of an
\* execution are fixed when it starts: no step, updateConfig included,
\* changes them while it is in flight, and an execution that starts takes
\* them from the configuration in force at that moment.
C25_LimitsFixedAtStart ==
    [][\A e \in ExecIds :
          /\ execs[e].proc # "none" => LimitsOf(execs'[e]) = LimitsOf(execs[e])
          /\ (execs[e].proc = "none" /\ execs'[e].proc # "none")
                => LimitsOf(execs'[e]) = LimitsIn(sbConfig)]_vars

\* An execution in flight under the limits it started with after updateConfig
\* changed them, and a later one under the new limits
C25_Witness ==
    \E d, e \in ExecIds :
        /\ execs[d].pc = "racing" /\ execs[e].pc = "racing"
        /\ LimitsOf(execs[d]) = LimitsIn(DEFAULT_SANDBOX_CONFIG)
        /\ LimitsOf(execs[e]) = LimitsIn(sbConfig)
        /\ LimitsOf(execs[e]) # LimitsOf(execs[d])

\* The container of the call could not be created: spawn threw, or the child
\* process could not be started
NotCreated(e) == execs[e].thrown \/ execs[e].proc \in {"failed", "errored"}

\* C26: when the container cannot be created, execute surfaces a failure of
\* that execution to its caller: the call is not lost with the process, what
\* it returns is not a normal completion, and docker is spawned at most once
\* per call.
C26_SpawnFailureSurfaced ==
    \A e \in ExecIds :
        NotCreated(e)
            => /\ execs[e].pc # "crashed"
               /\ execs[e].spawns <= 1
               /\ execs[e].pc = "done"
                    => (execs[e].result.exitCode # 0 \/ execs[e].result.timedOut)

\* C29: a result has timedOut = true only if the timeout fired before the
\* process closed and a kill was issued; a process that closed first yields
\* timedOut = false with its exit code, however long the container lookup
\* and the cleanup take afterwards.
C29_TimedOutOnlyWhenTimeoutWon ==
    \A e \in ExecIds :
        execs[e].result.returned
            => /\ execs[e].result.timedOut
                    => (execs[e].timeoutWon /\ execs[e].kills >= 1)
               /\ (execs[e].proc = "closed" /\ ~execs[e].timeoutWon)
                    => /\ ~execs[e].result.timedOut
                       /\ execs[e].result.exitCode = execs[e].exitCode

-----------------------------------------------------------------------------
(* Characters and strings.  A string is a sequence of one-character strings. *)

Digit == << "0", "1", "2", "3", "4", "5", "6", "7", "8", "9" >>
HexDigit == Digit \o << "a", "b", "c", "d", "e", "f" >>
LowerCase ==
    << "a", "b", "c", "d", "e", "f", "g", "h", "i", "j", "k", "l", "m",
       "n", "o", "p", "q", "r", "s", "t", "u", "v", "w", "x", "y", "z" >>
UpperCase ==
    << "A", "B", "C", "D", "E", "F", "G", "H", "I", "J", "K", "L", "M",
       "N", "O", "P", "Q", "R", "S", "T", "U", "V", "W", "X", "Y", "Z" >>

Range(s) == { s[i] : i \in DOMAIN s }
DigitSet == Range(Digit)
HexDigitSet == Range(HexDigit)
LetterSet == Range(LowerCase) \cup Range(UpperCase)
IsDigit(c) == c \in DigitSet
IsHexDigit(c) == c \in HexDigitSet
IsLetter(c) == c \in LetterSet
\* \w
IsWord(c) == IsLetter(c) \/ IsDigit(c) \/ c = "_"
\* \s
IsSpace(c) == c \in { " ", "\t", "\n", "\r" }

UpperSet == Range(UpperCase)
LowerOf == [c \in UpperSet |-> LowerCase[CHOOSE k \in 1..26 : UpperCase[k] = c]]
Lower(c) == IF c \in UpperSet THEN LowerOf[c] ELSE c

\* String.prototype.toLowerCase
toLowerCase(s) == [i \in 1..Len(s) |-> Lower(s[i])]

\* String.prototype.startsWith / endsWith / includes / slice(k)
startsWith(s, p) == Len(p) <= Len(s) /\ SubSeq(s, 1, Len(p)) = p
endsWith(s, p) == Len(p) <= Len(s) /\ SubSeq(s, Len(s) - Len(p) + 1, Len(s)) = p
includes(s, p) == \E i \in 0..(Len(s) - Len(p)) : SubSeq(s, i + 1, i + Len(p)) = p
\* p occurs in s at the (0-based) offset k
matchesAt(s, k, p) == k + Len(p) <= Len(s) /\ SubSeq(s, k + 1, k + Len(p)) = p

\* Number.prototype.toString(10) and toString(16) of a natural number
RECURSIVE Decimal(_)
Decimal(n) ==
    IF n < 10 THEN << Digit[n + 1] >>
    ELSE Decimal(n \div 10) \o << Digit[(n % 10) + 1] >>

RECURSIVE Hex(_)
Hex(n) ==
    IF n < 16 THEN << HexDigit[n + 1] >>
    ELSE Hex(n \div 16) \o << HexDigit[(n % 16) + 1] >>

-----------------------------------------------------------------------------
(* URLs.  An input URL is given by its parts; url.href is the string the    *)
(* caller passes, and hostname is what new URL(href).hostname returns: the  *)
(* host serialized by the URL parser (an IPv4 address in dotted decimal, an *)
(* IPv6 address compressed, in lower-case hexadecimal and in brackets, a    *)
(* domain in lower case).                                                   *)

NoHost == [kind |-> "none", octets |-> << >>, hextets |-> << >>,
           dotted |-> FALSE, name |-> << >>]
Ipv4Host(a, b, c, d) == [NoHost EXCEPT !.kind = "ipv4", !.octets = << a, b, c, d >>]
\* dotted: the address is written with its last 32 bits in dotted decimal
Ipv6Host(h, dotted) == [NoHost EXCEPT !.kind = "ipv6", !.hextets = h, !.dotted = dotted]
NameHost(n) == [NoHost EXCEPT !.kind = "name", !.name = n]

\* query is empty or starts with "?"
Url(scheme, host, path, query) ==
    [parses |-> TRUE, raw |-> << >>, scheme |-> scheme, host |-> host,
     path |-> path, query |-> query]
\* A string that new URL() rejects
NotAUrl(raw) ==
    [parses |-> FALSE, raw |-> raw, scheme |-> << >>, host |-> NoHost,
     path |-> << >>, query |-> << >>]

dottedDecimal(o) ==
    Decimal(o[1]) \o << "." >> \o Decimal(o[2]) \o << "." >>
        \o Decimal(o[3]) \o << "." >> \o Decimal(o[4])

\* Number of zero pieces of h from piece i on
RECURSIVE ZeroRun(_, _)
ZeroRun(h, i) == IF i > 8 \/ h[i] # 0 THEN 0 ELSE 1 + ZeroRun(h, i + 1)

\* The piece at which the first longest run of two or more zero pieces starts
\* (0: there is none)
CompressAt(h) ==
    LET longest == CHOOSE n \in 0..8 :
                      /\ \E i \in 1..8 : ZeroRun(h, i) = n
                      /\ \A i \in 1..8 : ZeroRun(h, i) <= n
    IN IF longest < 2 THEN 0
       ELSE CHOOSE i \in 1..8 :
               /\ ZeroRun(h, i) = longest
               /\ \A j \in 1..(i - 1) : ZeroRun(h, j) < longest

RECURSIVE Ipv6Pieces(_, _, _)
Ipv6Pieces(h, i, c) ==
    IF i > 8 THEN << >>
    ELSE IF i = c
         THEN (IF i = 1 THEN << ":", ":" >> ELSE << ":" >>)
              \o Ipv6Pieces(h, i + ZeroRun(h, i), c)
         ELSE Hex(h[i]) \o (IF i # 8 THEN << ":" >> ELSE << >>)
              \o Ipv6Pieces(h, i + 1, c)

\* The IPv6 serializer of the URL standard
serializeIpv6(h) == Ipv6Pieces(h, 1, CompressAt(h))

\* The last 32 bits of an IPv6 address as four octets
Low32(h) == << h[7] \div 256, h[7] % 256, h[8] \div 256, h[8] % 256 >>

\* The host as written in the input string (the dotted form is used for
\* IPv4-mapped addresses only: ::ffff:a.b.c.d)
rawHost(host) ==
    CASE host.kind = "ipv4" -> dottedDecimal(host.octets)
      [] host.kind = "ipv6" ->
            IF host.dotted
            THEN << "[", ":", ":", "f", "f", "f", "f", ":" >>
                 \o dottedDecimal(Low32(host.hextets)) \o << "]" >>
            ELSE << "[" >> \o serializeIpv6(host.hextets) \o << "]" >>
      [] host.kind = "name" -> host.name
      [] OTHER -> << >>

\* The string passed as url
href(url) ==
    IF url.parses
    THEN url.scheme \o << ":", "/", "/" >> \o rawHost(url.host) \o url.path
         \o url.query
    ELSE url.raw

\* new URL(url).hostname
hostname(url) ==
    CASE url.host.kind = "ipv4" -> dottedDecimal(url.host.octets)
      [] url.host.kind = "ipv6" -> << "[" >> \o serializeIpv6(url.host.hextets) \o << "]" >>
      [] url.host.kind = "name" -> toLowerCase(url.host.name)
      [] OTHER -> << >>

\* new URL(url).protocol and .pathname
protocol(url) == toLowerCase(url.scheme) \o << ":" >>
pathname(url) == url.path

-----------------------------------------------------------------------------
(* NetworkJail.isUrlBlocked                                                 *)

\* /^<k chars>172\.(1[6-9]|2[0-9]|3[01])\./ once the first k + 4 characters
\* have matched
SecondOctet16To31(s, k) ==
    /\ Len(s) >= k + 7
    /\ \/ s[k + 5] = "1" /\ s[k + 6] \in { "6", "7", "8", "9" }
       \/ s[k + 5] = "2" /\ IsDigit(s[k + 6])
       \/ s[k + 5] = "3" /\ s[k + 6] \in { "0", "1" }
    /\ s[k + 7] = "."

\* privatePatterns.map(pattern => pattern.test(ip))
privatePatterns(ip) ==
    LET lower == toLowerCase(ip)
    IN << startsWith(ip, << "1", "0", "." >>),
          startsWith(ip, << "1", "7", "2", "." >>) /\ SecondOctet16To31(ip, 0),
          startsWith(ip, << "1", "9", "2", ".", "1", "6", "8", "." >>),
          startsWith(ip, << "1", "2", "7", "." >>),
          startsWith(ip, << "1", "6", "9", ".", "2", "5", "4", "." >>),
          ip = << ":", ":", "1" >>,
          ip = << "[", ":", ":", "1", "]" >>,
          /\ startsWith(lower, << "f", "c" >>)
          /\ Len(lower) >= 5
          /\ IsHexDigit(lower[3]) /\ IsHexDigit(lower[4]) /\ lower[5] = ":",
          /\ startsWith(lower, << "f", "d" >>)
          /\ Len(lower) >= 5
          /\ IsHexDigit(lower[3]) /\ IsHexDigit(lower[4]) /\ lower[5] = ":",
          startsWith(lower, << "f", "e", "8", "0", ":" >>),
          startsWith(lower, << ":", ":", "f", "f", "f", "f", ":", "1", "0", "." >>),
          startsWith(lower, << ":", ":", "f", "f", "f", "f", ":", "1", "9", "2", ".", "1", "6", "8", "." >>),
          startsWith(lower, << ":", ":", "f", "f", "f", "f", ":", "1", "7", "2", "." >>) /\ SecondOctet16To31(lower, 7) >>

isPrivateIP(ip) == \E i \in DOMAIN privatePatterns(ip) : privatePatterns(ip)[i]

routerPatterns ==
    << << "r", "o", "u", "t", "e", "r" >>,
       << "g", "a", "t", "e", "w", "a", "y" >>,
       << "a", "d", "m", "i", "n" >>,
       << "m", "o", "d", "e", "m" >>,
       << "f", "r", "i", "t", "z", ".", "b", "o", "x" >> >>

Verdict(blocked, reason, arg) == [blocked |-> blocked, reason |-> reason, arg |-> arg]

\* An isUrlBlocked that blocks nothing, unparsable input included
isUrlBlocked_ParseUnchecked(url) == Verdict(FALSE, "", << >>)

isUrlBlocked(url) ==
    IF ~url.parses THEN Verdict(TRUE, "Invalid URL", << >>)
    ELSE IF protocol(url) = << "f", "i", "l", "e", ":" >>
    THEN Verdict(TRUE, "File protocol not allowed", << >>)
    ELSE IF hostname(url) \in { << "l", "o", "c", "a", "l", "h", "o", "s", "t" >>,
                                << "1", "2", "7", ".", "0", ".", "0", ".", "1" >>,
                                << ":", ":", "1" >>,
                                << "[", ":", ":", "1", "]" >> }
    THEN Verdict(TRUE, "Localhost access blocked (IPv4/IPv6)", << >>)
    ELSE IF isPrivateIP(hostname(url))
    THEN Verdict(TRUE, "Private network access blocked: ", hostname(url))
    ELSE IF \E i \in DOMAIN routerPatterns :
                includes(toLowerCase(hostname(url)), routerPatterns[i])
    THEN Verdict(TRUE, "Suspicious hostname blocked: ", hostname(url))
    ELSE Verdict(FALSE, "", << >>)

\* validateUrl: a new NetworkJail with the default configuration
validateUrl(url) ==
    [valid |-> ~isUrlBlocked(url).blocked,
     reason |-> isUrlBlocked(url).reason, arg |-> isUrlBlocked(url).arg]

-----------------------------------------------------------------------------
(* ContentFilter: policy and checkUrl                                       *)

\* The policy in force: browser-policy.json is not part of the sources, and
\* loadDefaultPolicy falls back to getMinimalPolicy() when it cannot read it
getMinimalPolicy ==
    [ version |-> "1.0.0-fallback",
      blocklist |->
        [ domains |-> << << "f", "a", "c", "e", "b", "o", "o", "k", ".", "c", "o", "m" >>,
                         << "t", "w", "i", "t", "t", "e", "r", ".", "c", "o", "m" >> >>,
          patterns |-> << << "*", "l", "o", "g", "i", "n", "*" >>,
                          << "*", "a", "u", "t", "h", "*" >> >>,
          fileExtensions |-> << << ".", "e", "x", "e" >>, << ".", "s", "h" >> >> ],
      allowlist |->
        [ domains |-> << << "g", "i", "t", "h", "u", "b", ".", "c", "o", "m" >>,
                         << "s", "t", "a", "c", "k", "o", "v", "e", "r", "f", "l", "o", "w", ".", "c", "o", "m" >> >> ],
      contentRules |->
        [ maxPageSizeBytes |-> 5 * 1024 * 1024,
          maxTextLength    |-> 50000,
          stripScripts     |-> TRUE,
          stripStyles      |-> TRUE,
          stripComments    |-> TRUE,
          extractTextOnly  |-> FALSE,
          preserveLinks    |-> TRUE ],
      searchEngines |->
        [ primary |-> << "h", "t", "t", "p", "s", ":", "/", "/", "d", "u", "c", "k", "d", "u", "c", "k", "g", "o", ".", "c", "o", "m", "/", "?", "q", "=" >> ],
      sensitiveDataPatterns |->
        [ block_if_detected |-> << "api[_-]?key", "password" >>,
          warn_if_detected  |-> << "email" >> ],
      rateLimit |->
        [ maxRequestsPerMinute |-> 30, maxRequestsPerHour |-> 200 ] ]

\* browser-policy.json as readFileSync and JSON.parse find it: missing,
\* unreadable, not JSON ("malformed"), or JSON with the value it parses to
PolicyFile(kind, value) == [kind |-> kind, value |-> value]
NoPolicyFile == PolicyFile("missing", << >>)

\* loadDefaultPolicy: the parsed document as it is, and the fallback when
\* reading or parsing throws
loadDefaultPolicy(file) ==
    IF file.kind = "json" THEN file.value ELSE getMinimalPolicy
policy == loadDefaultPolicy(NoPolicyFile)

\* The least index of a hit in a sequence of booleans, or 0
First(hits) ==
    IF \E i \in DOMAIN hits : hits[i]
    THEN CHOOSE i \in DOMAIN hits : hits[i] /\ \A j \in 1..(i - 1) : ~hits[j]
    ELSE 0

\* patternToRegex: the characters . + ^ $ { } ( ) | [ ] \ are escaped and so
\* match themselves, * becomes .* and ? becomes . ; every other character of
\* the patterns in use matches itself.  The regex is a sequence of tokens.
patternToRegex(pattern) ==
    [i \in 1..Len(pattern) |->
        IF pattern[i] = "*" THEN [t |-> "any*", c |-> ""]
        ELSE IF pattern[i] = "?" THEN [t |-> "any", c |-> ""]
        ELSE [t |-> "lit", c |-> pattern[i]]]

\* . matches every character but a line terminator
IsLineTerminator(c) == c \in { "\n", "\r" }

\* Equality of characters under the i flag
SameLetter(a, b) == a = b \/ Lower(a) = Lower(b)

\* The end of the match of the tokens from the i-th on at the (0-based)
\* offset k of s, ignoring case, or -1.  .* is greedy, and so is an optional
\* character ("opt": one of the characters of the string c, or nothing).
RECURSIVE MatchEnd(_, _, _, _)
MatchEnd(re, i, s, k) ==
    IF i > Len(re) THEN k
    ELSE CASE re[i].t = "any*" ->
                LET ok(j) == /\ \A m \in (k + 1)..j : ~IsLineTerminator(s[m])
                             /\ MatchEnd(re, i + 1, s, j) # -1
                IN IF \E j \in k..Len(s) : ok(j)
                   THEN LET j == CHOOSE j \in k..Len(s) :
                                    ok(j) /\ \A m \in (j + 1)..Len(s) : ~ok(m)
                        IN MatchEnd(re, i + 1, s, j)
                   ELSE -1
           [] re[i].t = "any" ->
                IF k < Len(s) /\ ~IsLineTerminator(s[k + 1])
                THEN MatchEnd(re, i + 1, s, k + 1)
                ELSE -1
           [] re[i].t = "opt" ->
                IF /\ k < Len(s)
                   /\ \E c \in Range(re[i].c) : SameLetter(s[k + 1], c)
                   /\ MatchEnd(re, i + 1, s, k + 1) # -1
                THEN MatchEnd(re, i + 1, s, k + 1)
                ELSE MatchEnd(re, i + 1, s, k)
           [] OTHER ->
                IF k < Len(s) /\ SameLetter(s[k + 1], re[i].c)
                THEN MatchEnd(re, i + 1, s, k + 1)
                ELSE -1

\* RegExp.prototype.test of a regex without the g flag: a match anywhere
TestTokens(re, s) == \E k \in 0..Len(s) : MatchEnd(re, 1, s, k) # -1

\* RegExp.prototype.test of a regex with the g flag: the search starts at
\* lastIndex, which becomes the end of the match found, or 0 if there is none
TestGlobal(re, s, lastIndex) ==
    LET starts == { k \in lastIndex..Len(s) : MatchEnd(re, 1, s, k) # -1 }
    IN IF starts = {}
       THEN [found |-> FALSE, lastIndex |-> 0]
       ELSE LET k == CHOOSE m \in starts : \A n \in starts : m <= n
            IN [found |-> TRUE, lastIndex |-> MatchEnd(re, 1, s, k)]

blockedPatternRegexes ==
    [i \in DOMAIN policy.blocklist.patterns |->
        patternToRegex(policy.blocklist.patterns[i])]

\* hostname === domain || hostname.endsWith('.' + domain)
OnDomain(host, domain) == host = domain \/ endsWith(host, << "." >> \o domain)

UrlCheck(allowed, reason, arg, isAllowlisted, matchedPattern) ==
    [allowed |-> allowed, reason |-> reason, arg |-> arg,
     isAllowlisted |-> isAllowlisted, isBlocklisted |-> ~allowed,
     matchedPattern |-> matchedPattern]

checkUrl(url) ==
    IF ~url.parses THEN UrlCheck(FALSE, "Invalid URL", << >>, FALSE, << >>)
    ELSE
    LET host == toLowerCase(hostname(url))
        fullUrl == toLowerCase(href(url))
        bl == policy.blocklist
        ext == First([i \in DOMAIN bl.fileExtensions |->
                        endsWith(toLowerCase(pathname(url)), bl.fileExtensions[i])])
        dom == First([i \in DOMAIN bl.domains |-> OnDomain(host, bl.domains[i])])
        pat == First([i \in DOMAIN blockedPatternRegexes |->
                        TestTokens(blockedPatternRegexes[i], fullUrl)])
    IN IF ext # 0
       THEN UrlCheck(FALSE, "Blocked file extension: ", bl.fileExtensions[ext],
                     FALSE, bl.fileExtensions[ext])
       ELSE IF dom # 0
       THEN UrlCheck(FALSE, "Blocked domain: ", bl.domains[dom], FALSE, bl.domains[dom])
       ELSE IF pat # 0
       THEN UrlCheck(FALSE, "Blocked by pattern", << >>, FALSE, bl.patterns[pat])
       ELSE UrlCheck(TRUE, "", << >>,
                     \E i \in DOMAIN policy.allowlist.domains :
                         OnDomain(host, policy.allowlist.domains[i]),
                     << >>)

\* SafeBrowserExecutor.preflightCheck
preflightCheck(url) ==
    IF isUrlBlocked(url).blocked
    THEN UrlCheck(FALSE, isUrlBlocked(url).reason, isUrlBlocked(url).arg, FALSE, << >>)
    ELSE IF ~checkUrl(url).allowed
    THEN checkUrl(url)
    ELSE IF ~validateUrl(url).valid
    THEN UrlCheck(FALSE, validateUrl(url).reason, validateUrl(url).arg, FALSE, << >>)
    ELSE UrlCheck(TRUE, "", << >>, checkUrl(url).isAllowlisted, << >>)

-----------------------------------------------------------------------------
(* ContentFilter.filterContent                                              *)

Lit(c) == [t |-> "lit", c |-> c]
Lits(s) == [i \in 1..Len(s) |-> Lit(s[i])]

\* new RegExp(p, 'gi') for the patterns of the policy
SensitiveRegex(p) ==
    CASE p = "api[_-]?key" ->
            Lits(<< "a", "p", "i" >>) \o << [t |-> "opt", c |-> << "_", "-" >>] >>
                \o Lits(<< "k", "e", "y" >>)
      [] p = "password" -> Lits(<< "p", "a", "s", "s", "w", "o", "r", "d" >>)
      [] p = "email" -> Lits(<< "e", "m", "a", "i", "l" >>)

sensitiveBlockRegexes ==
    [i \in DOMAIN policy.sensitiveDataPatterns.block_if_detected |->
        SensitiveRegex(policy.sensitiveDataPatterns.block_if_detected[i])]
sensitiveWarnRegexes ==
    [i \in DOMAIN policy.sensitiveDataPatterns.warn_if_detected |->
        SensitiveRegex(policy.sensitiveDataPatterns.warn_if_detected[i])]

\* s has p at offset k, ignoring case
matchesAtCI(s, k, p) ==
    k + Len(p) <= Len(s) /\ \A i \in 1..Len(p) : SameLetter(s[k + i], p[i])

\* The least offset q >= from at which s has p (ignoring case), or -1
IndexOfCI(s, p, from) ==
    IF \E q \in from..Len(s) : matchesAtCI(s, q, p)
    THEN CHOOSE q \in from..Len(s) :
            matchesAtCI(s, q, p) /\ \A r \in from..(q - 1) : ~matchesAtCI(s, r, p)
    ELSE -1

\* The number of \w characters of s from offset k on
RECURSIVE WordRun(_, _)
WordRun(s, k) == IF k < Len(s) /\ IsWord(s[k + 1]) THEN 1 + WordRun(s, k + 1) ELSE 0

\* /<tag\b[^<]*(?:(?!<\/tag>)<[^<]*)*<\/tag>/i at offset k: from <tag, not
\* followed by a word character, to the first </tag> after it
BlockEnd(tag, s, k) ==
    LET open == << "<" >> \o tag
        close == << "<", "/" >> \o tag \o << ">" >>
        from == k + Len(open)
    IN IF /\ matchesAtCI(s, k, open)
          /\ (from = Len(s) \/ ~IsWord(s[from + 1]))
          /\ IndexOfCI(s, close, from) # -1
       THEN IndexOfCI(s, close, from) + Len(close)
       ELSE -1

\* /name="[^"]*"/i (with \w+ after the name if word) at offset k
AttrEnd(name, word, quote, s, k) ==
    LET run == IF word THEN WordRun(s, k + Len(name)) ELSE 0
        eq == k + Len(name) + run
    IN IF /\ matchesAtCI(s, k, name)
          /\ (word => run >= 1)
          /\ matchesAt(s, eq, << "=", quote >>)
          /\ IndexOfCI(s, << quote >>, eq + 2) # -1
       THEN IndexOfCI(s, << quote >>, eq + 2) + 1
       ELSE -1

\* /<!--[\s\S]*?-->/ at offset k
CommentEnd(s, k) ==
    IF matchesAt(s, k, << "<", "!", "-", "-" >>) /\ IndexOfCI(s, << "-", "-", ">" >>, k + 4) # -1
    THEN IndexOfCI(s, << "-", "-", ">" >>, k + 4) + 3
    ELSE -1

\* /<[^>]+>/ at offset k
TagEnd(s, k) ==
    IF /\ matchesAt(s, k, << "<" >>)
       /\ k + 1 < Len(s) /\ s[k + 2] # ">"
       /\ IndexOfCI(s, << ">" >>, k + 2) # -1
    THEN IndexOfCI(s, << ">" >>, k + 2) + 1
    ELSE -1

\* The end of the match of one of the regular expressions at offset k, or -1
RegexEnd(re, s, k) ==
    CASE re = "script"  -> BlockEnd(<< "s", "c", "r", "i", "p", "t" >>, s, k)
      [] re = "style"   -> BlockEnd(<< "s", "t", "y", "l", "e" >>, s, k)
      [] re = "on=\""   -> AttrEnd(<< "o", "n" >>, TRUE, "\"", s, k)
      [] re = "on='"    -> AttrEnd(<< "o", "n" >>, TRUE, "'", s, k)
      [] re = "style=\"" -> AttrEnd(<< "s", "t", "y", "l", "e" >>, FALSE, "\"", s, k)
      [] re = "comment" -> CommentEnd(s, k)
      [] re = "tag"     -> TagEnd(s, k)
      [] re = "\\s+"    -> IF k < Len(s) /\ IsSpace(s[k + 1])
                           THEN CHOOSE e \in (k + 1)..Len(s) :
                                   /\ \A m \in (k + 1)..e : IsSpace(s[m])
                                   /\ (e = Len(s) \/ ~IsSpace(s[e + 1]))
                           ELSE -1

\* s.replace(re, by) for a regular expression with the g flag, from offset
\* k: the text up to the next match, by, and the rest after that match
RECURSIVE replaceAll(_, _, _, _)
replaceAll(re, by, s, k) ==
    LET starts == { q \in k..(Len(s) - 1) : RegexEnd(re, s, q) # -1 }
    IN IF starts = {}
       THEN SubSeq(s, k + 1, Len(s))
       ELSE LET q == CHOOSE m \in starts : \A n \in starts : m <= n
            IN SubSeq(s, k + 1, q) \o by \o replaceAll(re, by, s, RegexEnd(re, s, q))

\* The elements of names whose flag is set, in order
RECURSIVE Pick(_, _)
Pick(names, flags) ==
    IF names = << >> THEN << >>
    ELSE (IF Head(flags) THEN << Head(names) >> ELSE << >>)
         \o Pick(Tail(names), Tail(flags))

\* checkSensitiveData: every regex is tested once, from its lastIndex
checkSensitiveData(content, blockIdx, warnIdx) ==
    LET b == [i \in DOMAIN sensitiveBlockRegexes |->
                 TestGlobal(sensitiveBlockRegexes[i], content, blockIdx[i])]
        w == [i \in DOMAIN sensitiveWarnRegexes |->
                 TestGlobal(sensitiveWarnRegexes[i], content, warnIdx[i])]
    IN [ hasBlockingData  |-> \E i \in DOMAIN b : b[i].found,
         hasWarningData   |-> \E i \in DOMAIN w : w[i].found,
         blockingPatterns |-> Pick(policy.sensitiveDataPatterns.block_if_detected,
                                   [i \in DOMAIN b |-> b[i].found]),
         warningPatterns  |-> Pick(policy.sensitiveDataPatterns.warn_if_detected,
                                   [i \in DOMAIN w |-> w[i].found]),
         blockLastIndex   |-> [i \in DOMAIN b |-> b[i].lastIndex],
         warnLastIndex    |-> [i \in DOMAIN w |-> w[i].lastIndex] ]

\* The three replacements of stripScripts, the two of stripStyles, and the
\* one of stripComments
StripScripts(s) ==
    replaceAll("on='", << >>,
        replaceAll("on=\"", << >>, replaceAll("script", << >>, s, 0), 0), 0)
StripStyles(s) == replaceAll("style=\"", << >>, replaceAll("style", << >>, s, 0), 0)
StripComments(s) == replaceAll("comment", << >>, s, 0)

\* The stripping steps of filterContent, each under its content rule
SanitizeScripts(s) == IF policy.contentRules.stripScripts THEN StripScripts(s) ELSE s
SanitizeStyles(s) == IF policy.contentRules.stripStyles THEN StripStyles(s) ELSE s
SanitizeComments(s) == IF policy.contentRules.stripComments THEN StripComments(s) ELSE s

\* The content after the stripping steps.  (extractTextOnly is false in the
\* policy in force, so ContentFilter.extractText is not applied.)
Sanitize(html) == SanitizeComments(SanitizeStyles(SanitizeScripts(html)))

FilterResult(allowed, reason, arg, sanitized, originalLength, detected, patterns, warnings) ==
    [ allowed |-> allowed, reason |-> reason, arg |-> arg,
      sanitizedContent |-> sanitized, originalLength |-> originalLength,
      sanitizedLength |-> Len(sanitized), sensitiveDataDetected |-> detected,
      sensitivePatterns |-> patterns, warnings |-> warnings ]

Warning(text, arg) == [text |-> text, arg |-> arg]

\* The end of filterContent, from the result of checkSensitiveData on:
\* blocked on blocking data, else the warnings and the truncation
filterChecked(html, sanitized, check) ==
    LET rules == policy.contentRules
        w1 == IF check.hasWarningData
              THEN << Warning("Warning: Potential sensitive data found: ",
                              check.warningPatterns) >>
              ELSE << >>
        long == Len(sanitized) > rules.maxTextLength
        w2 == IF long
              THEN << Warning("Content truncated to characters",
                              << rules.maxTextLength >>) >>
              ELSE << >>
        cut == IF long THEN SubSeq(sanitized, 1, rules.maxTextLength) ELSE sanitized
    IN IF check.hasBlockingData
       THEN [ result |-> FilterResult(FALSE, "Sensitive data detected: ",
                                      check.blockingPatterns, << >>, Len(html),
                                      TRUE, check.blockingPatterns, << >>),
              blockLastIndex |-> check.blockLastIndex,
              warnLastIndex |-> check.warnLastIndex ]
       ELSE [ result |-> FilterResult(TRUE, "", << >>, cut, Len(html),
                                      check.hasWarningData, check.warningPatterns,
                                      w1 \o w2),
              blockLastIndex |-> check.blockLastIndex,
              warnLastIndex |-> check.warnLastIndex ]

\* The middle of filterContent: the sensitive-data check of the sanitized
\* content
filterSanitized(html, sanitized, blockIdx, warnIdx) ==
    filterChecked(html, sanitized, checkSensitiveData(sanitized, blockIdx, warnIdx))

\* filterContent(html, url): the result, and the lastIndex it leaves in the
\* sensitive-data regexes
filterContent(html, blockIdx, warnIdx) ==
    IF Len(html) > policy.contentRules.maxPageSizeBytes
    THEN [ result |-> FilterResult(FALSE, "Content exceeds size limit", << >>,
                                   << >>, Len(html), FALSE, << >>, << >>),
           blockLastIndex |-> blockIdx, warnLastIndex |-> warnIdx ]
    ELSE filterSanitized(html, Sanitize(html), blockIdx, warnIdx)

-----------------------------------------------------------------------------
(* SafeBrowserExecutor                                                      *)

MaxNavs == 2
MaxTicks == 1

NavIds == 1..MaxNavs

\* The value of an absent field
Undefined == << "undefined" >>

HtmlOpen ==
    << "<", "h", "t", "m", "l", ">", "<", "h", "e", "a", "d", ">", "<", "t",
       "i", "t", "l", "e", ">" >>
HtmlMid ==
    << "<", "/", "t", "i", "t", "l", "e", ">", "<", "/", "h", "e", "a", "d",
       ">", "<", "b", "o", "d", "y", ">" >>
HtmlClose ==
    << "<", "/", "b", "o", "d", "y", ">", "<", "/", "h", "t", "m", "l", ">" >>

simulatedResponses ==
    [ domain |-> << << "d", "u", "c", "k", "d", "u", "c", "k", "g", "o", ".", "c", "o", "m" >>,
                    << "n", "e", "w", "s", ".", "y", "c", "o", "m", "b", "i", "n", "a", "t", "o", "r", ".", "c", "o", "m" >>,
                    << "g", "i", "t", "h", "u", "b", ".", "c", "o", "m" >> >>,
      title |-> << << "D", "u", "c", "k", "D", "u", "c", "k", "G", "o", " ", "S", "e", "a", "r", "c", "h", " ", "R", "e", "s", "u", "l", "t", "s" >>,
                   << "H", "a", "c", "k", "e", "r", " ", "N", "e", "w", "s" >>,
                   << "G", "i", "t", "H", "u", "b" >> >>,
      content |-> << << "S", "e", "a", "r", "c", "h", " ", "r", "e", "s", "u", "l", "t", "s", " ", "f", "o", "r", " ", "y", "o", "u", "r", " ", "q", "u", "e", "r", "y", " ", "w", "o", "u", "l", "d", " ", "a", "p", "p", "e", "a", "r", " ", "h", "e", "r", "e", "." >>,
                     << "L", "a", "t", "e", "s", "t", " ", "t", "e", "c", "h", " ", "n", "e", "w", "s", " ", "a", "n", "d", " ", "d", "i", "s", "c", "u", "s", "s", "i", "o", "n", "s", " ", "f", "r", "o", "m", " ", "H", "N", "." >>,
                     << "R", "e", "p", "o", "s", "i", "t", "o", "r", "y", " ", "i", "n", "f", "o", "r", "m", "a", "t", "i", "o", "n", " ", "a", "n", "d", " ", "R", "E", "A", "D", "M", "E", " ", "c", "o", "n", "t", "e", "n", "t", "." >> >> ]

\* simpleFetch(url): the simulated response for the domain
simpleFetch(url) ==
    LET domain == hostname(url)
        known == First([i \in DOMAIN simulatedResponses.domain |->
                          simulatedResponses.domain[i] = domain])
        title == IF known # 0 THEN simulatedResponses.title[known]
                 ELSE << "P", "a", "g", "e", ":", " " >> \o domain
        content == IF known # 0 THEN simulatedResponses.content[known]
                   ELSE << "C", "o", "n", "t", "e", "n", "t", " ", "f", "r", "o", "m", " " >> \o href(url)
    IN [ content |-> content, title |-> title,
         html |-> HtmlOpen \o title \o HtmlMid \o content \o HtmlClose ]

\* executeInSandbox(url, options): no container is created
executeInSandbox(url) == simpleFetch(url)

\* String.prototype.trim
trim(s) ==
    IF \A i \in 1..Len(s) : IsSpace(s[i]) THEN << >>
    ELSE LET a == CHOOSE i \in 1..Len(s) :
                     ~IsSpace(s[i]) /\ \A j \in 1..(i - 1) : IsSpace(s[j])
             b == CHOOSE i \in 1..Len(s) :
                     ~IsSpace(s[i]) /\ \A j \in (i + 1)..Len(s) : IsSpace(s[j])
         IN SubSeq(s, a, b)

\* SafeBrowserExecutor.extractText
extractText(html) ==
    trim(replaceAll("\\s+", << " " >>, replaceAll("tag", << " " >>, html, 0), 0))

blockedResult(url, reason, arg) ==
    [ url |-> href(url), title |-> << "B", "l", "o", "c", "k", "e", "d" >>, content |-> << >>,
      html |-> Undefined, blocked |-> TRUE, blockReason |-> reason,
      blockArg |-> arg, originalLength |-> 0, warnings |-> << >> ]

\* A limiter that counts and never rejects
checkRateLimit_NoLimit(count, now) ==
    [ ok |-> TRUE,
      requestCount |-> [minute |-> count.minute + 1, hour |-> count.hour + 1,
                        lastReset |-> now] ]

\* checkRateLimit at the time now: the verdict and the counters it leaves
checkRateLimit(count, now) ==
    LET minute == IF count.lastReset < now - 60000 THEN 0 ELSE count.minute
        hour == IF count.lastReset < now - 3600000 THEN 0 ELSE count.hour
    IN IF minute >= 30 \/ hour >= 200
       THEN [ ok |-> FALSE,
              requestCount |-> [minute |-> minute, hour |-> hour,
                                lastReset |-> count.lastReset] ]
       ELSE [ ok |-> TRUE,
              requestCount |-> [minute |-> minute + 1, hour |-> hour + 1,
                                lastReset |-> now] ]

\* encodeURIComponent for the characters of the queries in use
encodeURIComponent(s) ==
    LET enc(c) == CASE c = " " -> << "%", "2", "0" >>
                    [] c = "/" -> << "%", "2", "F" >>
                    [] c = "?" -> << "%", "3", "F" >>
                    [] c = "=" -> << "%", "3", "D" >>
                    [] c = ":" -> << "%", "3", "A" >>
                    [] OTHER -> << c >>
        RECURSIVE Enc(_)
        Enc(t) == IF t = << >> THEN << >> ELSE enc(Head(t)) \o Enc(Tail(t))
    IN Enc(s)

\* ContentFilter.getSearchUrl(query): searchEngines.primary followed by the
\* encoded query, as new URL() parses it
getSearchUrl(query) ==
    Url(<< "h", "t", "t", "p", "s" >>, NameHost(<< "d", "u", "c", "k", "d", "u", "c", "k", "g", "o", ".", "c", "o", "m" >>), << "/" >>,
        << "?", "q", "=" >> \o encodeURIComponent(query))

-----------------------------------------------------------------------------
(* The URLs and queries the executor is called with                         *)

Http == << "h", "t", "t", "p" >>
Https == << "h", "t", "t", "p", "s" >>
Root == << "/" >>

\* Addresses of the loopback, private, link-local and metadata ranges
PrivateV4 ==
    { << 127, 0, 0, 1 >>, << 127, 1, 2, 3 >>, << 10, 0, 0, 1 >>,
      << 172, 16, 0, 1 >>, << 172, 31, 255, 254 >>, << 192, 168, 1, 1 >>,
      << 169, 254, 169, 254 >> }
PublicV4 == { << 8, 8, 8, 8 >>, << 172, 32, 0, 1 >> }
\* ::1, fc00::1, fd12:3456::1, fe80::1, febf::1
PrivateV6 ==
    { << 0, 0, 0, 0, 0, 0, 0, 1 >>, << 64512, 0, 0, 0, 0, 0, 0, 1 >>,
      << 64786, 13398, 0, 0, 0, 0, 0, 1 >>, << 65152, 0, 0, 0, 0, 0, 0, 1 >>,
      << 65215, 0, 0, 0, 0, 0, 0, 1 >> }
\* 2001:db8::1
PublicV6 == { << 8193, 3512, 0, 0, 0, 0, 0, 1 >> }
\* ::ffff:a.b.c.d
Mapped(o) == << 0, 0, 0, 0, 0, 65535, o[1] * 256 + o[2], o[3] * 256 + o[4] >>

AddressUrls ==
    { Url(Http, Ipv4Host(o[1], o[2], o[3], o[4]), Root, << >>) :
          o \in PrivateV4 \cup PublicV4 }
    \cup { Url(Http, Ipv6Host(h, FALSE), Root, << >>) : h \in PrivateV6 \cup PublicV6 }
    \cup { Url(Http, Ipv6Host(Mapped(o), TRUE), Root, << >>) : o \in PrivateV4 \cup PublicV4 }

ExampleCom == << "e", "x", "a", "m", "p", "l", "e", ".", "c", "o", "m" >>
GithubCom == << "g", "i", "t", "h", "u", "b", ".", "c", "o", "m" >>

NameUrls ==
    { Url(Https, NameHost(ExampleCom), Root, << >>),
      Url(Https, NameHost(GithubCom), Root, << >>),
      Url(Https, NameHost(GithubCom), << "/", "l", "o", "g", "i", "n" >>, << >>),
      Url(Https, NameHost(<< "F", "a", "c", "e", "b", "o", "o", "k", ".", "c", "o", "m" >>), Root, << >>),
      Url(Https, NameHost(<< "m", ".", "f", "a", "c", "e", "b", "o", "o", "k", ".", "c", "o", "m" >>), Root, << >>),
      Url(Https, NameHost(<< "a", "d", "m", "i", "n", ".", "g", "i", "t", "h", "u", "b", ".", "c", "o", "m" >>), Root, << >>),
      Url(Https, NameHost(<< "1", "0", ".", "g", "i", "t", "h", "u", "b", ".", "c", "o", "m" >>), Root, << >>),
      Url(Http, NameHost(<< "l", "o", "c", "a", "l", "h", "o", "s", "t" >>), Root, << >>),
      Url(Http, NameHost(<< "r", "o", "u", "t", "e", "r", ".", "l", "o", "c", "a", "l" >>), Root, << >>),
      Url(Http, NameHost(ExampleCom), << "/", "s", "e", "t", "u", "p", ".", "e", "x", "e" >>, << >>),
      Url(Http, NameHost(<< "r", "o", "u", "t", "e", "r", ".", "l", "o", "c", "a", "l" >>), << "/", "s", "e", "t", "u", "p", ".", "e", "x", "e" >>, << >>),
      Url(Https, NameHost(GithubCom), << "/", "a", ".", "s", "h" >>, << "?", "r", "a", "w", "=", "1" >>),
      Url(Https, NameHost(ExampleCom), Root, << "?", "q", "=", "p", "a", "s", "s", "w", "o", "r", "d" >>),
      Url(Https, NameHost(ExampleCom), << "/", "e", "m", "a", "i", "l" >>, << >>),
      Url(<< "f", "i", "l", "e" >>, NoHost, << "/", "e", "t", "c", "/", "p", "a", "s", "s", "w", "d" >>, << >>),
      NotAUrl(<< "n", "o", "t", " ", "a", " ", "u", "r", "l" >>),
      NotAUrl(ExampleCom) }

BrowserUrls == AddressUrls \cup NameUrls

\* The URLs of the calls that follow the first one
FollowUpUrls ==
    { Url(Https, NameHost(ExampleCom), Root, << >>),
      Url(Https, NameHost(ExampleCom), Root, << "?", "q", "=", "p", "a", "s", "s", "w", "o", "r", "d" >>),
      Url(Https, NameHost(ExampleCom), << "/", "e", "m", "a", "i", "l" >>, << >>),
      Url(Https, NameHost(GithubCom), << "/", "l", "o", "g", "i", "n" >>, << >>) }

Queries == { << "t", "l", "a" >>, << "l", "o", "g", "i", "n", " ", "h", "e", "l", "p" >> }

\* options.searchEngine: absent, or a URL
NoUrl == NotAUrl(<< >>)
SearchEngines == { NoUrl, Url(Https, NameHost(ExampleCom), << "/", "s", "e", "a", "r", "c", "h" >>, << >>) }

\* Every URL a call can be made with, and the (state-independent) verdict of
\* the pre-flight check for each
AllUrls ==
    BrowserUrls \cup { getSearchUrl(q) : q \in Queries } \cup (SearchEngines \ { NoUrl })
preflightVerdict == [url \in AllUrls |-> preflightCheck(url)]

-----------------------------------------------------------------------------
(* SafeBrowserExecutor: navigate and search                                 *)

NoFetch == [content |-> << >>, title |-> << >>, html |-> << >>]
NoFilter == FilterResult(FALSE, "", << >>, << >>, 0, FALSE, << >>, << >>)
NoNavResult == blockedResult(NoUrl, "", << >>)

\* A call of navigate or search: pc is its position; fetched and filter keep
\* what the fetch returned and what filterContent returned for it.  History:
\* seen is the numbers of requests admitted in the minute and in the hour
\* before the call reached the rate limiter, steps the steps it went through
IdleNav ==
    [ pc |-> "idle", kind |-> "", url |-> NoUrl, textOnly |-> FALSE,
      fetched |-> NoFetch, filter |-> NoFilter, result |-> NoNavResult,
      seen |-> [minute |-> 0, hour |-> 0], steps |-> << >> ]

\* An executor that has admitted no request yet, or that admitted its 29th
\* request of the running minute (and of the hour, or its 199th) just now
InitialRequestCounts ==
    { [minute |-> 0, hour |-> 0, lastReset |-> 0],
      [minute |-> 29, hour |-> 29, lastReset |-> 0],
      [minute |-> 29, hour |-> 199, lastReset |-> 0] }

\* The admissions that left the counters count at time 0: the requests of
\* the running minute were admitted just now, the others of the hour half
\* an hour ago
AdmittedBefore(count) ==
    (IF count.hour > count.minute
     THEN << [at |-> 0 - 1800000, n |-> count.hour - count.minute] >>
     ELSE << >>)
    \o (IF count.minute > 0 THEN << [at |-> 0, n |-> count.minute] >> ELSE << >>)

\* The number of requests admitted at time t or later
RECURSIVE AdmittedSince(_, _)
AdmittedSince(adm, t) ==
    IF adm = << >> THEN 0
    ELSE (IF Head(adm).at >= t THEN Head(adm).n ELSE 0)
         + AdmittedSince(Tail(adm), t)

BrowserInit ==
    /\ requestCount \in InitialRequestCounts
    /\ admitted = AdmittedBefore(requestCount)
    /\ clock = 0
    /\ blockLastIndex = [i \in DOMAIN sensitiveBlockRegexes |-> 0]
    /\ warnLastIndex = [i \in DOMAIN sensitiveWarnRegexes |-> 0]
    /\ navs = [c \in NavIds |-> IdleNav]

\* An executor that is not used
BrowserIdle ==
    /\ requestCount = [minute |-> 0, hour |-> 0, lastReset |-> 0]
    /\ admitted = << >>
    /\ clock = 0
    /\ blockLastIndex = [i \in DOMAIN sensitiveBlockRegexes |-> 0]
    /\ warnLastIndex = [i \in DOMAIN sensitiveWarnRegexes |-> 0]
    /\ navs = [c \in NavIds |-> IdleNav]

\* The call c of navigate(url, options) (options.textOnly is kept once the
\* request is admitted: nothing reads it before)
Called(c, kind, url, textOnly) == [navs[c] EXCEPT !.kind = kind, !.url = url]

\* The requests admitted in the minute and in the hour before the time now
Seen(adm, now) ==
    [ minute |-> AdmittedSince(adm, now - 60000),
      hour |-> AdmittedSince(adm, now - 3600000) ]

\* A navigate that starts the fetch whatever the pre-flight check says
Navigate_FetchBlocked(c, kind, url, textOnly) ==
    /\ navs[c].pc = "idle"
    /\ \A d \in 1..(c - 1) : navs[d].pc # "idle"
    /\ navs' = [navs EXCEPT ![c] =
          [Called(c, kind, url, textOnly) EXCEPT
              !.pc = "fetching", !.textOnly = textOnly,
              !.steps = << "urlCheck", "fetch" >>]]
    /\ UNCHANGED <<requestCount, admitted, clock, blockLastIndex, warnLastIndex,
                   notBrowser>>

\* navigate(url, options) up to its first await: the pre-flight check, then
\* the rate limit, then the fetch is started
Navigate(c, kind, url, textOnly) ==
    /\ navs[c].pc = "idle"
    /\ \A d \in 1..(c - 1) : navs[d].pc # "idle"
    /\ LET pre == preflightVerdict[url]
           rate == checkRateLimit(requestCount, clock)
           call == Called(c, kind, url, textOnly)
           limited == [call EXCEPT !.seen = Seen(admitted, clock)]
       IN IF ~pre.allowed
          THEN /\ navs' = [navs EXCEPT ![c] =
                     [call EXCEPT !.pc = "done", !.steps = << "urlCheck" >>,
                                  !.result = blockedResult(url, pre.reason, pre.arg)]]
               /\ UNCHANGED <<requestCount, admitted>>
          ELSE /\ requestCount' = rate.requestCount
               /\ admitted' = IF rate.ok
                              THEN Append(admitted, [at |-> clock, n |-> 1])
                              ELSE admitted
               /\ navs' = [navs EXCEPT ![c] =
                     IF rate.ok
                     THEN [limited EXCEPT !.pc = "fetching", !.textOnly = textOnly,
                                       !.steps = << "urlCheck", "rateLimit", "fetch" >>]
                     ELSE [limited EXCEPT !.pc = "done",
                                       !.steps = << "urlCheck", "rateLimit" >>,
                                       !.result = blockedResult(url, "Rate limit exceeded",
                                                                << >>)]]
    /\ UNCHANGED <<clock, blockLastIndex, warnLastIndex, notBrowser>>

NavigateStart(c, url, textOnly) == Navigate(c, "navigate", url, textOnly)

\* search(query, options): navigate to options.searchEngine, or else to the
\* search URL of the query
SearchStart(c, query, searchEngine, textOnly) ==
    Navigate(c, "search",
             IF searchEngine # NoUrl THEN searchEngine ELSE getSearchUrl(query),
             textOnly)

\* The end of navigate(url, options), from the result f of filterContent
\* on: the call when it has returned, and the lastIndex left in the
\* sensitive-data regexes
navigateFiltered(nav, fetched, f) ==
    LET url == nav.url
        sanitized == f.result.sanitizedContent
        result ==
            IF ~f.result.allowed
            THEN blockedResult(url, f.result.reason, f.result.arg)
            ELSE [ url |-> href(url),
                   title |-> fetched.title,
                   content |-> IF nav.textOnly THEN extractText(sanitized)
                               ELSE sanitized,
                   html |-> IF nav.textOnly THEN Undefined ELSE sanitized,
                   blocked |-> FALSE, blockReason |-> "", blockArg |-> << >>,
                   originalLength |-> f.result.originalLength,
                   warnings |-> f.result.warnings ]
    IN [ nav |-> [nav EXCEPT !.pc = "done", !.fetched = fetched,
                             !.filter = f.result, !.result = result,
                             !.steps = Append(@, "filter")],
         blockLastIndex |-> f.blockLastIndex,
         warnLastIndex |-> f.warnLastIndex ]

\* navigate(url, options) once the page is fetched: filterContent of its html
navigateFetched(nav, fetched, blockIdx, warnIdx) ==
    navigateFiltered(nav, fetched, filterContent(fetched.html, blockIdx, warnIdx))

\* The rest of navigate(url, options), from the fetch on
navigate(nav, blockIdx, warnIdx) ==
    navigateFetched(nav, executeInSandbox(nav.url), blockIdx, warnIdx)

\* The fetch of call c has returned: filterContent, then the result
NavigateFinish(c) ==
    /\ navs[c].pc = "fetching"
    /\ \E out \in { navigate(navs[c], blockLastIndex, warnLastIndex) } :
          /\ navs' = [navs EXCEPT ![c] = out.nav]
          /\ blockLastIndex' = out.blockLastIndex
          /\ warnLastIndex' = out.warnLastIndex
    /\ UNCHANGED <<requestCount, admitted, clock, notBrowser>>

\* What the call returned: search returns the list of its one result
Returned(c) ==
    IF navs[c].kind = "search" THEN << navs[c].result >> ELSE navs[c].result

\* Half a minute and a millisecond pass
Tick ==
    /\ clock + 30001 <= MaxTicks * 60002
    /\ clock' = clock + 30001
    /\ UNCHANGED <<requestCount, admitted, blockLastIndex, warnLastIndex, navs,
                   notBrowser>>

BrowserNext ==
    \/ \E c \in NavIds, t \in BOOLEAN :
           \E url \in (IF c = 1 THEN BrowserUrls ELSE FollowUpUrls) :
               NavigateStart(c, url, t)
    \/ \E c \in NavIds, q \in Queries, e \in SearchEngines, t \in BOOLEAN :
           SearchStart(c, q, e, t)
    \/ \E c \in NavIds : NavigateFinish(c)
    \/ Tick

-----------------------------------------------------------------------------
(* Properties of the URL gate and of the results of navigate and search     *)

\* The address ranges of PRIVATE_NETWORKS and DOCKER_METADATA_IPS, by value:
\* 127/8, 10/8, 172.16/12, 192.168/16 and 169.254/16
InPrivateV4(o) ==
    \/ o[1] = 127
    \/ o[1] = 10
    \/ o[1] = 172 /\ o[2] \in 16..31
    \/ o[1] = 192 /\ o[2] = 168
    \/ o[1] = 169 /\ o[2] = 254

\* ::1, fc00::/7, fe80::/10, and ::ffff:a.b.c.d for a.b.c.d of those ranges
InPrivateV6(h) ==
    \/ h = << 0, 0, 0, 0, 0, 0, 0, 1 >>
    \/ h[1] \div 512 = 126
    \/ h[1] \div 64 = 1018
    \/ SubSeq(h, 1, 6) = << 0, 0, 0, 0, 0, 65535 >> /\ InPrivateV4(Low32(h))

\* The host is an address literal of a loopback, private, link-local or
\* metadata range
IsPrivateHost(host) ==
    \/ host.kind = "ipv4" /\ InPrivateV4(host.octets)
    \/ host.kind = "ipv6" /\ InPrivateV6(host.hextets)

\* The calls that have passed their pre-flight check, and those that returned
StartedNavs == { c \in NavIds : navs[c].pc # "idle" }
DoneNavs == { c \in NavIds : navs[c].pc = "done" }

\* C1: every URL whose host is a loopback, private, link-local or metadata
\* address literal (IPv4, bracketed IPv6, or IPv4-mapped IPv6) is blocked by
\* isUrlBlocked, and navigate returns a blocked result for it.
C1_PrivateHostsBlocked ==
    \A c \in StartedNavs :
        navs[c].url.parses /\ IsPrivateHost(navs[c].url.host)
            => /\ isUrlBlocked(navs[c].url).blocked
               /\ c \in DoneNavs => navs[c].result.blocked

\* The block rules, by what they are meant to catch.  A blocked URL pattern
\* *w* catches the URLs that contain w, whatever the case of the letters.
FileScheme(url) == toLowerCase(url.scheme) = << "f", "i", "l", "e" >>
LoopbackName(url) == url.host.kind = "name" /\ toLowerCase(url.host.name) = << "l", "o", "c", "a", "l", "h", "o", "s", "t" >>
BlockedExtension(url) ==
    \E i \in DOMAIN policy.blocklist.fileExtensions :
        endsWith(toLowerCase(url.path), policy.blocklist.fileExtensions[i])
BlocklistedDomain(url) ==
    /\ url.host.kind = "name"
    /\ \E i \in DOMAIN policy.blocklist.domains :
          OnDomain(toLowerCase(url.host.name), policy.blocklist.domains[i])
BlockedUrlPattern(url) ==
    \E i \in DOMAIN policy.blocklist.patterns :
        LET p == policy.blocklist.patterns[i]
        IN includes(toLowerCase(href(url)), SubSeq(p, 2, Len(p) - 1))
RouterLikeName(url) ==
    /\ url.host.kind = "name"
    /\ \E i \in DOMAIN routerPatterns :
          includes(toLowerCase(url.host.name), routerPatterns[i])
MatchesBlockRule(url) ==
    \/ FileScheme(url)
    \/ IsPrivateHost(url.host) \/ LoopbackName(url)
    \/ BlockedExtension(url)
    \/ BlocklistedDomain(url)
    \/ BlockedUrlPattern(url)
    \/ RouterLikeName(url)
OnAllowlist(url) ==
    /\ url.host.kind = "name"
    /\ \E i \in DOMAIN policy.allowlist.domains :
          OnDomain(toLowerCase(url.host.name), policy.allowlist.domains[i])

\* C5: the verdict on a URL is determined by the block rules alone: a URL
\* that matches a block rule is blocked, allowlisted or not, and a URL on an
\* allowlisted domain that matches no block rule is allowed with
\* isAllowlisted set.
C5_VerdictByBlockRulesAlone ==
    \A c \in StartedNavs :
        LET url == navs[c].url
            verdict == preflightVerdict[url]
        IN url.parses =>
            /\ MatchesBlockRule(url) => ~verdict.allowed
            /\ OnAllowlist(url) /\ ~MatchesBlockRule(url)
                  => verdict.allowed /\ verdict.isAllowlisted

\* What filterContent returned for the fetch of call c, as it is and as the
\* text extracted from it
FilterOutputs(c) ==
    { navs[c].filter.sanitizedContent, extractText(navs[c].filter.sanitizedContent) }

\* C7: the content, html and title of a result of navigate or search are
\* output of filterContent for that fetch, and a blocked result has empty
\* content.
C7_ResultFieldsAreFiltered ==
    \A c \in DoneNavs :
        LET r == navs[c].result
        IN IF r.blocked THEN r.content = << >>
           ELSE /\ r.content \in FilterOutputs(c)
                /\ r.html \in FilterOutputs(c) \cup { Undefined }
                /\ r.title \in FilterOutputs(c)


\* The calls the rate limiter rejected, and those it admitted
RateLimited(c) ==
    navs[c].pc = "done" /\ navs[c].result.blockReason = "Rate limit exceeded"
Admitted(c) == navs[c].pc # "idle" /\ "fetch" \in Range(navs[c].steps)

\* C11: with navigate and search calls in flight concurrently, checking and
\* incrementing the request counters is one step: no more than 30 requests
\* are admitted within a minute and no more than 200 within an hour, the
\* counters never exceed 30 and 200, and they are never below the number of
\* requests admitted in the running minute and hour.
C11_CountersNeverExceedLimits ==
    LET seen == Seen(admitted, clock)
    IN /\ seen.minute <= requestCount.minute /\ requestCount.minute <= 30
       /\ seen.hour <= requestCount.hour /\ requestCount.hour <= 200

\* A call is in flight, admitted as the 30th request of the minute, and a
\* second call made meanwhile was rejected
C11_Witness ==
    /\ navs[1].pc = "fetching" /\ navs[1].seen.minute = 29
    /\ RateLimited(2) /\ navs[2].seen.minute = 30
    /\ requestCount.minute = 30

\* C12: a request with an allowed URL that is the 31st within one minute is
\* rejected by the rate limiter, and once that minute has passed requests are
\* admitted again: a request that finds fewer than 30 requests admitted in
\* the minute before it (and fewer than 200 in the hour) is admitted.
C12_RejectedOnlyWithinTheWindow ==
    \A c \in StartedNavs :
        preflightVerdict[navs[c].url].allowed =>
            /\ navs[c].seen.minute >= 30 => RateLimited(c)
            /\ navs[c].seen.minute < 30 /\ navs[c].seen.hour < 200 => Admitted(c)

\* The block rules in the order scheme, private or loopback address, file
\* extension, domain blocklist, pattern blocklist, hostname heuristics: the
\* first of them that matches a URL (0: none), and the place in that order of
\* the rule a block reason names
FirstRule(url) ==
    First(<< FileScheme(url),
             IsPrivateHost(url.host) \/ LoopbackName(url),
             BlockedExtension(url),
             BlocklistedDomain(url),
             BlockedUrlPattern(url),
             RouterLikeName(url) >>)
RuleOfReason(reason) ==
    CASE reason = "File protocol not allowed" -> 1
      [] reason \in { "Localhost access blocked (IPv4/IPv6)",
                      "Private network access blocked: " } -> 2
      [] reason = "Blocked file extension: " -> 3
      [] reason = "Blocked domain: " -> 4
      [] reason = "Blocked by pattern" -> 5
      [] reason = "Suspicious hostname blocked: " -> 6
      [] OTHER -> 0

\* C13: the URL check applies its rules in the order scheme, private or
\* loopback address, file extension, domain blocklist, pattern blocklist,
\* hostname heuristics: a blocked URL that matches one or several rules is
\* reported with the reason of the earliest rule that matches it.
C13_EarliestRuleDecides ==
    \A c \in StartedNavs :
        LET url == navs[c].url
            verdict == preflightVerdict[url]
        IN url.parses /\ FirstRule(url) # 0 /\ ~verdict.allowed
              => RuleOfReason(verdict.reason) = FirstRule(url)

\* C14: for an input that does not parse as a URL, isUrlBlocked and checkUrl
\* return a blocked verdict with the reason "Invalid URL", and navigate
\* returns a blocked result with that reason straight from the URL check:
\* the call ends with a result, not with an exception.
C14_UnparsableUrlIsBlocked ==
    \A c \in StartedNavs :
        LET url == navs[c].url
        IN ~url.parses =>
            /\ isUrlBlocked(url).blocked /\ isUrlBlocked(url).reason = "Invalid URL"
            /\ ~checkUrl(url).allowed /\ checkUrl(url).reason = "Invalid URL"
            /\ c \in DoneNavs /\ navs[c].steps = << "urlCheck" >>
            /\ Returned(c) = blockedResult(url, "Invalid URL", << >>)

\* navigate("not a url") and then navigate of a URL have returned, the first
\* blocked as invalid and the second not blocked
C14_Witness ==
    /\ navs[1].pc = "done" /\ ~navs[1].url.parses
    /\ navs[1].result.blocked /\ navs[1].result.url = << "n", "o", "t", " ", "a", " ", "u", "r", "l" >>
    /\ navs[2].pc = "done" /\ ~navs[2].result.blocked

\* The content holds a match of a block_if_detected pattern
HasBlockingMatch(content) ==
    \E i \in DOMAIN sensitiveBlockRegexes :
        TestTokens(sensitiveBlockRegexes[i], content)

\* C15: in any sequence of filterContent calls on one ContentFilter, every
\* call whose (stripped) content holds a match of a blocking pattern returns
\* allowed = false with empty sanitizedContent, whatever the earlier calls
\* processed.
C15_BlockingContentAlwaysRejected ==
    \A c \in DoneNavs :
        "filter" \in Range(navs[c].steps)
            /\ HasBlockingMatch(Sanitize(navs[c].fetched.html))
            => ~navs[c].filter.allowed /\ navs[c].filter.sanitizedContent = << >>

\* The calls that returned a blocked result, and the audit entries of
\* blocked actions
BlockedNavs == { c \in DoneNavs : navs[c].result.blocked }
BlockedEntries == { k \in DOMAIN auditFile : auditFile[k].blocked }

\* C19: every navigation that ends blocked, by the URL check, by the rate
\* limiter or by content rejection, has an audit entry recorded by the time
\* its blocked result is returned: there are at least as many audit entries
\* of blocked actions as calls that returned blocked.
C19_BlockedNavigationIsAudited ==
    Cardinality(BlockedEntries) >= Cardinality(BlockedNavs)

\* The steps of navigate in their order, and s being the first steps of t
NavigateSteps == << "urlCheck", "rateLimit", "fetch", "filter" >>
IsPrefix(s, t) == Len(s) <= Len(t) /\ s = SubSeq(t, 1, Len(s))

\* C20: in every navigate call the steps happen in the order URL check,
\* rate-limit check, fetch, content filtering: the rate limiter is asked
\* only for a URL the URL check allowed, no fetch is started for a URL the
\* URL check blocked or a request the rate limiter rejected, and a call that
\* fetched returns only after filterContent ran on what was fetched.
C20_StepsInOrder ==
    \A c \in StartedNavs :
        LET nav == navs[c]
            allowed == preflightVerdict[nav.url].allowed
        IN /\ IsPrefix(nav.steps, NavigateSteps)
           /\ "rateLimit" \in Range(nav.steps) => allowed
           /\ ~allowed \/ RateLimited(c)
                 => "fetch" \notin Range(nav.steps) /\ nav.fetched = NoFetch
                    /\ nav.pc = "done" /\ nav.result.blocked
           /\ nav.pc = "fetching"
                 => nav.steps = SubSeq(NavigateSteps, 1, 3) /\ nav.result = NoNavResult
           /\ nav.pc = "done" /\ "fetch" \in Range(nav.steps)
                 => /\ nav.steps = NavigateSteps
                    /\ nav.fetched = executeInSandbox(nav.url)
                    /\ nav.filter.originalLength = Len(nav.fetched.html)
           /\ nav.pc = "done" /\ ~nav.result.blocked => nav.steps = NavigateSteps

\* A call went through the four steps and returned a page, and a second
\* call was rejected by the rate limiter without a fetch
C20_Witness ==
    /\ navs[1].pc = "done" /\ navs[1].steps = NavigateSteps /\ ~navs[1].result.blocked
    /\ RateLimited(2) /\ navs[2].steps = << "urlCheck", "rateLimit" >>

\* C31: the rate limiter rejects a request only if 30 requests were admitted
\* during the 60 seconds before it or 200 during the hour before it: a caller
\* whose request rate stays below both limits is never rejected.
C31_RejectedOnlyAtTheLimit ==
    \A c \in NavIds :
        RateLimited(c) => (navs[c].seen.minute >= 30 \/ navs[c].seen.hour >= 200)

-----------------------------------------------------------------------------
(* Regular expressions of the sensitive-data patterns                       *)

\* An item of a regular expression: a character class repeated min to max
\* times (max 0: no upper limit; neg: [^...]), an ordered alternation of
\* literals (opt: followed by ?), or \b
Cls(set, min, max) ==
    [t |-> "cls", set |-> set, neg |-> FALSE, min |-> min, max |-> max,
     alts |-> << >>, opt |-> FALSE]
NotCls(set, min, max) == [Cls(set, min, max) EXCEPT !.neg = TRUE]
Alt(alts, opt) ==
    [t |-> "alt", set |-> {}, neg |-> FALSE, min |-> 1, max |-> 1,
     alts |-> alts, opt |-> opt]
WordBoundary == [Alt(<< >>, FALSE) EXCEPT !.t = "\\b"]
\* The characters of s, one after the other; x?; \d and \s
Chars(s) == [i \in 1..Len(s) |-> Cls({s[i]}, 1, 1)]
Opt(c) == Cls({c}, 0, 1)
Alnum == LetterSet \cup DigitSet
SpaceSet == { " ", "\t", "\n", "\r" }

\* new RegExp(items, flags): ci is the i flag
RegExp(items, ci) == [items |-> items, ci |-> ci]

\* The character c is in the class of the item
ClassHas(it, ci, c) ==
    (IF ci THEN \E m \in it.set : Lower(m) = Lower(c) ELSE c \in it.set) # it.neg

\* The number of characters of s from offset k on that are in the class of
\* the item, up to its max
RECURSIVE ClassRun(_, _, _, _, _)
ClassRun(it, ci, s, k, n) ==
    IF /\ k + n < Len(s)
       /\ (it.max = 0 \/ n < it.max)
       /\ ClassHas(it, ci, s[k + n + 1])
    THEN ClassRun(it, ci, s, k, n + 1)
    ELSE n

\* \b at offset k
IsBoundary(s, k) == (k > 0 /\ IsWord(s[k])) # (k < Len(s) /\ IsWord(s[k + 1]))

\* The end of the match that backtracking finds for the items from the i-th
\* on at offset k of s, or -1: a class takes as many characters as the rest
\* of the expression allows, an alternation its first alternative that the
\* rest allows
RECURSIVE Match(_, _, _, _)
Match(re, i, s, k) ==
    IF i > Len(re.items) THEN k
    ELSE LET it == re.items[i]
         IN CASE it.t = "cls" ->
                   LET ns == { n \in it.min..ClassRun(it, re.ci, s, k, 0) :
                                  Match(re, i + 1, s, k + n) # -1 }
                   IN IF ns = {} THEN -1
                      ELSE Match(re, i + 1, s,
                                 k + CHOOSE n \in ns : \A m \in ns : m <= n)
              [] it.t = "alt" ->
                   LET a == First([j \in DOMAIN it.alts |->
                                     /\ IF re.ci THEN matchesAtCI(s, k, it.alts[j])
                                        ELSE matchesAt(s, k, it.alts[j])
                                     /\ Match(re, i + 1, s, k + Len(it.alts[j])) # -1])
                   IN IF a # 0 THEN Match(re, i + 1, s, k + Len(it.alts[a]))
                      ELSE IF it.opt THEN Match(re, i + 1, s, k)
                      ELSE -1
              [] OTHER ->
                   IF IsBoundary(s, k) THEN Match(re, i + 1, s, k) ELSE -1

\* while ((match = regex.exec(s)) !== null) for a regex with the g flag never
\* ends: exec finds an empty match, which leaves lastIndex where it is, so
\* that every later exec finds the same match again
RECURSIVE ExecLoops(_, _, _)
ExecLoops(re, s, lastIndex) ==
    LET starts == { k \in lastIndex..Len(s) : Match(re, 1, s, k) # -1 }
    IN IF starts = {} THEN FALSE
       ELSE LET k == CHOOSE m \in starts : \A n \in starts : m <= n
            IN Match(re, 1, s, k) = k \/ ExecLoops(re, s, Match(re, 1, s, k))

\* while ((match = regex.exec(s)) !== null) for a regex with the g flag, from
\* lastIndex on, when the loop ends: the matches, each with its index and
\* its length.  (No built-in expression matches the empty string.)
RECURSIVE ExecAll(_, _, _)
ExecAll(re, s, lastIndex) ==
    LET starts == { k \in lastIndex..Len(s) : Match(re, 1, s, k) > k }
    IN IF starts = {} THEN << >>
       ELSE LET k == CHOOSE m \in starts : \A n \in starts : m <= n
            IN << [index |-> k, length |-> Match(re, 1, s, k) - k] >>
               \o ExecAll(re, s, Match(re, 1, s, k))

-----------------------------------------------------------------------------
(* patterns.ts                                                              *)

PatternDefinition(name, type, severity, pattern) ==
    [name |-> name, type |-> type, pattern |-> pattern, severity |-> severity]

\* \d{n}, \d{min,max}, \s* and the quote class
Digits(min, max) == Cls(DigitSet, min, max)
Spaces(min, max) == Cls(SpaceSet, min, max)
Quotes == { "\"", "'" }

ApiKeyPatterns ==
    << PatternDefinition("openai_api_key", "api_key", "critical",
          Chars(<< "s", "k", "-" >>) \o << Cls(Alnum, 20, 0) >>),
       PatternDefinition("anthropic_api_key", "api_key", "critical",
          Chars(<< "s", "k", "-", "a", "n", "t", "-" >>) \o << Cls(Alnum \cup { "-" }, 20, 0) >>),
       PatternDefinition("google_api_key", "api_key", "critical",
          Chars(<< "A", "I", "z", "a" >>) \o << Cls(Alnum \cup { "-", "_" }, 35, 35) >>),
       PatternDefinition("aws_access_key", "api_key", "critical",
          Chars(<< "A", "K", "I", "A" >>) \o << Cls(UpperSet \cup DigitSet, 16, 16) >>),
       PatternDefinition("aws_secret_key", "secret", "critical",
          << Cls(Alnum \cup { "/", "+" }, 40, 40) >>),
       PatternDefinition("github_token", "api_key", "critical",
          Chars(<< "g", "h" >>) \o << Cls({ "p", "o", "u", "s", "r" }, 1, 1) >>
             \o Chars(<< "_" >>) \o << Cls(Alnum, 36, 0) >>),
       PatternDefinition("stripe_key", "api_key", "critical",
          << Alt(<< << "s", "k", "_", "l", "i", "v", "e", "_" >>, << "p", "k", "_", "l", "i", "v", "e", "_" >>, << "s", "k", "_", "t", "e", "s", "t", "_" >>, << "p", "k", "_", "t", "e", "s", "t", "_" >> >>, FALSE),
             Cls(Alnum, 24, 0) >>),
       PatternDefinition("telegram_bot_token", "api_key", "critical",
          << Digits(8, 10) >> \o Chars(<< ":" >>)
             \o << Cls(Alnum \cup { "_", "-" }, 35, 35) >>),
       PatternDefinition("discord_token", "api_key", "critical",
          << Cls({ "M", "N" }, 1, 1), Cls(Alnum, 23, 0) >> \o Chars(<< "." >>)
             \o << Cls(Alnum \cup { "-", "_" }, 6, 6) >> \o Chars(<< "." >>)
             \o << Cls(Alnum \cup { "-", "_" }, 27, 27) >>),
       PatternDefinition("jwt_token", "credential", "high",
          Chars(<< "e", "y", "J" >>) \o << Cls(Alnum \cup { "_", "-" }, 0, 0) >>
             \o Chars(<< ".", "e", "y", "J" >>) \o << Cls(Alnum \cup { "_", "-" }, 0, 0) >>
             \o Chars(<< "." >>) \o << Cls(Alnum \cup { "_", "-" }, 0, 0) >>) >>

CredentialPatterns ==
    << PatternDefinition("generic_password", "credential", "high",
          << Alt(<< << "p", "a", "s", "s", "w", "o", "r", "d" >>, << "s", "e", "n", "h", "a" >>, << "p", "w", "d" >> >>, FALSE),
             Spaces(0, 0), Cls({ "=", ":" }, 1, 1), Spaces(0, 0),
             Cls(Quotes, 0, 1), NotCls(Quotes \cup SpaceSet, 6, 0),
             Cls(Quotes, 0, 1) >>),
       PatternDefinition("basic_auth", "credential", "high",
          Chars(<< "B", "a", "s", "i", "c" >>)
             \o << Spaces(1, 0), Cls(Alnum \cup { "+", "/", "=" }, 20, 0) >>),
       PatternDefinition("bearer_token", "credential", "high",
          Chars(<< "B", "e", "a", "r", "e", "r" >>)
             \o << Spaces(1, 0), Cls(Alnum \cup { ".", "_", "-" }, 20, 0) >>) >>

PiiPatterns ==
    << PatternDefinition("cpf", "pii", "high",
          << Digits(3, 3), Opt("."), Digits(3, 3), Opt("."), Digits(3, 3),
             Opt("-"), Digits(2, 2) >>),
       PatternDefinition("cnpj", "pii", "high",
          << Digits(2, 2), Opt("."), Digits(3, 3), Opt("."), Digits(3, 3),
             Opt("/"), Digits(4, 4), Opt("-"), Digits(2, 2) >>),
       PatternDefinition("rg", "pii", "medium",
          << Digits(1, 2), Opt("."), Digits(3, 3), Opt("."), Digits(3, 3),
             Opt("-"), Cls(DigitSet \cup { "X", "x" }, 1, 1) >>),
       PatternDefinition("ssn", "pii", "high",
          << Digits(3, 3) >> \o Chars(<< "-" >>) \o << Digits(2, 2) >>
             \o Chars(<< "-" >>) \o << Digits(4, 4) >>),
       PatternDefinition("credit_card", "pii", "critical",
          << WordBoundary,
             Digits(4, 4), Cls({ "-", " " }, 0, 1),
             Digits(4, 4), Cls({ "-", " " }, 0, 1),
             Digits(4, 4), Cls({ "-", " " }, 0, 1),
             Digits(4, 4), WordBoundary >>),
       PatternDefinition("email_sensitive", "pii", "low",
          << Cls(Alnum \cup { ".", "_", "%", "+", "-" }, 1, 0) >> \o Chars(<< "@" >>)
             \o << Cls(Alnum \cup { ".", "-" }, 1, 0) >> \o Chars(<< "." >>)
             \o << Cls(LetterSet, 2, 0) >>),
       PatternDefinition("phone_br", "pii", "medium",
          << Opt("("), Digits(2, 2), Opt(")"), Spaces(0, 1), Opt("9"),
             Digits(4, 4), Opt("-"), Digits(4, 4) >>) >>

FiscalAndKeyPatterns ==
    << PatternDefinition("nota_fiscal", "fiscal", "medium",
          Chars(<< "N", "F" >>) \o << Cls({ "a", "e" }, 0, 1), Spaces(0, 0), Digits(6, 9) >>),
       PatternDefinition("inscricao_estadual", "fiscal", "medium",
          << Cls({ "I" }, 1, 1), Opt("."), Cls({ "E" }, 1, 1), Opt("."),
             Spaces(0, 0), Digits(9, 14) >>),
       PatternDefinition("private_key_pem", "secret", "critical",
          Chars(<< "-", "-", "-", "-", "-", "B", "E", "G", "I", "N", " " >>)
             \o << Alt(<< << "R", "S", "A", " " >>, << "E", "C", " " >>, << "O", "P", "E", "N", "S", "S", "H", " " >> >>, TRUE) >>
             \o Chars(<< "P", "R", "I", "V", "A", "T", "E", " ", "K", "E", "Y", "-", "-", "-", "-", "-" >>)),
       PatternDefinition("private_key_content", "secret", "critical",
          Chars(<< "M", "I", "I" >>) \o << Cls(Alnum \cup { "+", "/", "=" }, 100, 0) >>),
       PatternDefinition("database_url", "credential", "critical",
          << Alt(<< << "p", "o", "s", "t", "g", "r", "e", "s" >>, << "m", "y", "s", "q", "l" >>, << "m", "o", "n", "g", "o", "d", "b" >>, << "r", "e", "d", "i", "s" >> >>, FALSE) >>
             \o Chars(<< ":", "/", "/" >>) \o << NotCls(SpaceSet \cup Quotes, 1, 0) >>) >>

SENSITIVE_PATTERNS ==
    ApiKeyPatterns \o CredentialPatterns \o PiiPatterns \o FiscalAndKeyPatterns

-----------------------------------------------------------------------------
(* TheCensor.censor                                                         *)

\* config.onDetection is not set
DEFAULT_CENSOR_CONFIG ==
    [ enabled |-> TRUE,
      replacementText |-> << "[", "R", "E", "D", "A", "C", "T", "E", "D", "]" >>,
      patternTypes |-> << "api_key", "secret", "credential", "pii", "fiscal" >>,
      customPatterns |-> << >>,
      logAllScans |-> FALSE,
      enableAuditLog |-> TRUE ]

\* String.prototype.slice(from, to) for 0 <= from
slice(s, from, to) == SubSeq(s, Min(from, Len(s)) + 1, Min(to, Len(s)))

\* The matches of one regular expression (flags gi) in output, as pushed
SensitiveMatches(type, name, severity, pattern, output) ==
    LET found == ExecAll(RegExp(pattern, TRUE), output, 0)
    IN [j \in DOMAIN found |->
          [ type |-> type, pattern |-> name,
            match |-> slice(output, found[j].index, found[j].index + found[j].length),
            index |-> found[j].index, severity |-> severity ]]

\* The loop over SENSITIVE_PATTERNS, skipping the types not configured
RECURSIVE ScanBuiltIn(_, _, _)
ScanBuiltIn(patterns, config, output) ==
    IF patterns = << >> THEN << >>
    ELSE LET p == Head(patterns)
         IN (IF p.type \in Range(config.patternTypes)
             THEN SensitiveMatches(p.type, p.name, p.severity, p.pattern, output)
             ELSE << >>)
            \o ScanBuiltIn(Tail(patterns), config, output)

\* A custom pattern of the configuration: its source, whether new
\* RegExp(source, 'gi') compiles it, and the expression it compiles to
CustomPattern(source, compiles, items) ==
    [source |-> source, compiles |-> compiles, items |-> items]

\* A loop over config.customPatterns that an invalid pattern ends
RECURSIVE ScanCustom_StopAtInvalid(_, _)
ScanCustom_StopAtInvalid(customPatterns, output) ==
    IF customPatterns = << >> \/ ~Head(customPatterns).compiles THEN << >>
    ELSE SensitiveMatches("custom", "custom", "high", Head(customPatterns).items,
                          output)
         \o ScanCustom_StopAtInvalid(Tail(customPatterns), output)

\* The loop over config.customPatterns: a pattern that new RegExp rejects is
\* caught and skipped
RECURSIVE ScanCustom(_, _)
ScanCustom(customPatterns, output) ==
    IF customPatterns = << >> THEN << >>
    ELSE (IF Head(customPatterns).compiles
          THEN SensitiveMatches("custom", "custom", "high",
                                Head(customPatterns).items, output)
          ELSE << >>)
         \o ScanCustom(Tail(customPatterns), output)

\* The custom patterns whose loop never ends on output, by their place
LoopingPatterns(customPatterns, output) ==
    { i \in DOMAIN customPatterns :
         /\ customPatterns[i].compiles
         /\ ExecLoops(RegExp(customPatterns[i].items, TRUE), output, 0) }

\* censor(output) does not return
censorLoops(output, config) ==
    config.enabled /\ LoopingPatterns(config.customPatterns, output) # {}

\* The custom patterns censor(output) gets to
PatternsReached(customPatterns, output) ==
    LET looping == LoopingPatterns(customPatterns, output)
    IN IF looping = {} THEN customPatterns
       ELSE SubSeq(customPatterns, 1,
                   (CHOOSE i \in looping : \A j \in looping : i <= j) - 1)

\* [...matches].sort((a, b) => b.index - a.index): by index, descending;
\* matches of equal index keep their order
RECURSIVE sortedMatches(_)
\* The matches left in the order the patterns found them
sortedMatches_AsFound(matches) == matches

sortedMatches(matches) ==
    IF matches = << >> THEN << >>
    ELSE LET m == matches[Len(matches)]
             rest == sortedMatches(SubSeq(matches, 1, Len(matches) - 1))
             n == Cardinality({ i \in DOMAIN rest : rest[i].index >= m.index })
         IN SubSeq(rest, 1, n) \o << m >> \o SubSeq(rest, n + 1, Len(rest))

\* A text whose characters carry the offset (from 1) they have in the scanned
\* output; the characters of the replacement text carry 0
Marked(text, original) ==
    [i \in DOMAIN text |-> [c |-> text[i], at |-> IF original THEN i ELSE 0]]
Unmarked(marked) == [i \in DOMAIN marked |-> marked[i].c]

\* The redaction loop over the sorted matches
RECURSIVE Redact(_, _, _)
Redact(sorted, censored, replacementText) ==
    IF sorted = << >> THEN censored
    ELSE LET m == Head(sorted)
         IN Redact(Tail(sorted),
                   slice(censored, 0, m.index)
                      \o Marked(replacementText, FALSE)
                      \o slice(censored, m.index + Len(m.match), Len(censored)),
                   replacementText)

\* A CensorResult that raises the alert for critical matches only
CensorResult_CriticalOnly(output, matches, censored, scanned) ==
    [ hasSensitiveData |-> Len(matches) > 0,
      censoredOutput |-> Unmarked(censored),
      originalOutput |-> output,
      matches |-> matches,
      raiseAlert |-> \E i \in DOMAIN matches : matches[i].severity = "critical",
      origin |-> [i \in DOMAIN censored |-> censored[i].at],
      scanned |-> scanned ]

\* The CensorResult; origin tells where the characters of censoredOutput
\* come from, scanned whether the pattern loops ran over the output
CensorResult(output, matches, censored, scanned) ==
    [ hasSensitiveData |-> Len(matches) > 0,
      censoredOutput |-> Unmarked(censored),
      originalOutput |-> output,
      matches |-> matches,
      raiseAlert |-> \E i \in DOMAIN matches :
                        matches[i].severity \in { "critical", "high" },
      origin |-> [i \in DOMAIN censored |-> censored[i].at],
      scanned |-> scanned ]

\* censor(output) from the collected matches on
censorMatches(output, config, matches) ==
    CensorResult(output, matches,
                 Redact(sortedMatches(matches), Marked(output, TRUE),
                        config.replacementText),
                 TRUE)

\* The result of censor(output) under a configuration
censor(output, config) ==
    IF ~config.enabled
    THEN CensorResult(output, << >>, Marked(output, TRUE), FALSE)
    ELSE censorMatches(output, config,
                       ScanBuiltIn(SENSITIVE_PATTERNS, config, output)
                          \o ScanCustom(config.customPatterns, output))

-----------------------------------------------------------------------------
(* SecurityAuditLog                                                         *)

\* DEFAULT_AUDIT_CONFIG, the configuration createSecurityAuditLog() gives;
\* onCritical is not set
DEFAULT_AUDIT_CONFIG == [ rotateLogs |-> TRUE, consoleOutput |-> TRUE ]

\* The arguments logCensorResult passes to log(); NoEntry when it logs nothing
NoEntry == << "null" >>

\* A logCensorResult that also records the matched text
logCensorResult_WithMatch(result, session) ==
    IF ~result.hasSensitiveData THEN NoEntry
    ELSE [ type |-> "leak_blocked",
           severity |-> IF result.raiseAlert THEN "high" ELSE "medium",
           description |-> << "Sensitive data blocked: ",
                              ToString(Len(result.matches)),
                              " pattern(s) matched" >>,
           context |->
             [ matchCount |-> Len(result.matches),
               patterns |-> [i \in DOMAIN result.matches |->
                               [ type |-> result.matches[i].type,
                                 pattern |-> result.matches[i].pattern,
                                 severity |-> result.matches[i].severity,
                                 match |-> result.matches[i].match,
                                 matchLength |-> Len(result.matches[i].match) ]],
               outputLength |-> Len(result.originalOutput),
               censoredLength |-> Len(result.censoredOutput),
               redactedChars |-> Len(result.originalOutput)
                                   - Len(result.censoredOutput)
                                   + Len(result.matches) * Len(<< "[", "R", "E", "D", "A", "C", "T", "E", "D", "]" >>) ],
           sessionId |-> session ]

logCensorResult(result, session) ==
    IF ~result.hasSensitiveData THEN NoEntry
    ELSE [ type |-> "leak_blocked",
           severity |-> IF result.raiseAlert THEN "high" ELSE "medium",
           description |-> << "Sensitive data blocked: ",
                              ToString(Len(result.matches)),
                              " pattern(s) matched" >>,
           context |->
             [ matchCount |-> Len(result.matches),
               patterns |-> [i \in DOMAIN result.matches |->
                               [ type |-> result.matches[i].type,
                                 pattern |-> result.matches[i].pattern,
                                 severity |-> result.matches[i].severity,
                                 matchLength |-> Len(result.matches[i].match) ]],
               outputLength |-> Len(result.originalOutput),
               censoredLength |-> Len(result.censoredOutput),
               redactedChars |-> Len(result.originalOutput)
                                   - Len(result.censoredOutput)
                                   + Len(result.matches) * Len(<< "[", "R", "E", "D", "A", "C", "T", "E", "D", "]" >>) ],
           sessionId |-> session ]

\* The entry log() builds at time now
SecurityAuditEntry(call, now) ==
    [ id |-> << "sec", now >>,
      type |-> call.type,
      timestamp |-> now,
      severity |-> call.severity,
      description |-> call.description,
      context |-> call.context,
      sessionId |-> call.sessionId,
      blocked |-> call.type \in { "leak_blocked", "sandbox_violation" } ]

\* A line on the console; at is the time it was written
ConsoleLine(level, text, args, now) ==
    [ level |-> level, text |-> text, args |-> args, at |-> now ]

\* writeEntry: what the console gets when appendFileSync throws
writeEntryFailed(now) ==
    ConsoleLine("error", << "[SecurityAudit] Failed to write to log file:" >>,
                << "error" >>, now)

SeverityUpper ==
    [ critical |-> "CRITICAL", high |-> "HIGH", medium |-> "MEDIUM", low |-> "LOW" ]
SeverityLevel ==
    [ critical |-> "error", high |-> "warn", medium |-> "warn", low |-> "log" ]

logToConsole(entry) ==
    ConsoleLine(SeverityLevel[entry.severity],
                << "[SECURITY:", SeverityUpper[entry.severity], "] [",
                   entry.type, "] " >> \o entry.description,
                << >>, entry.timestamp)

\* The console lines of one log() call
logLines(entry, writeOk) ==
    (IF writeOk THEN << >> ELSE << writeEntryFailed(entry.timestamp) >>)
    \o (IF DEFAULT_AUDIT_CONFIG.consoleOutput THEN << logToConsole(entry) >> ELSE << >>)

\* console.warn of the custom patterns that new RegExp rejected
invalidPatternWarnings(customPatterns, now) ==
    LET invalid == SelectSeq(customPatterns, LAMBDA p : ~p.compiles)
    IN [i \in DOMAIN invalid |->
          ConsoleLine("warn", << "[Censor] Invalid custom pattern: ",
                                 invalid[i].source >>, << >>, now)]

\* TheCensor.logScan
logScan(result, config, now) ==
    IF result.hasSensitiveData
    THEN << ConsoleLine("warn",
                        << "[Censor] ALERT: Sensitive data detected (",
                           ToString(Len(result.matches)), " matches)" >>,
                        [i \in DOMAIN result.matches |->
                           [ type |-> result.matches[i].type,
                             pattern |-> result.matches[i].pattern,
                             severity |-> result.matches[i].severity ]],
                        now) >>
    ELSE IF config.logAllScans
         THEN << ConsoleLine("log", << "[Censor] Scan complete: clean" >>, << >>, now) >>
         ELSE << >>

-----------------------------------------------------------------------------
(* TheCensor: the state machine                                             *)

MaxScans == 2

\* The texts scanned
CleanText == << "h", "e", "l", "l", "o", " ", "w", "o", "r", "l", "d" >>
NotaFiscalA == << "N", "F", "1", "2", "3", "4", "5", "6" >>
NotaFiscalB == << "N", "F", "6", "5", "4", "3", "2", "1" >>
NestedSecret ==
    << "p", "w", "d", "=", "N", "F", "1", "2", "3", "4", "5", "6", "a", "b",
       "c" >>
SameOffset == << "1", "2", "3", "4", "5", "6", "7", "8", "9", "0", "1" >>
PartialOverlap ==
    << "p", "w", "d", "=", "a", "b", "c", "d", "N", "F", " ", "1", "2", "3",
       "4", "5", "6" >>
\* A secret after "pwd=" that is no password value for generic_password;
\* two secrets apart from each other, found in the order of their places
\* and redacted in the reverse order; and a text that holds the replacement
\* text and two secrets, found in the reverse order of their places
SpacedSecret ==
    << "p", "w", "d", "=", "N", "F", " ", "1", "2", "3", "4", "5", "6" >>
TwoSecrets ==
    << "p", "w", "d", "=", "h", "u", "n", "t", "e", "r", "2", "2", " ", "N",
       "F", "1", "2", "3", "4", "5", "6" >>
PlaceholderText ==
    << "N", "F", "1", "2", "3", "4", "5", "6", " ", "[", "R", "E", "D", "A",
       "C", "T", "E", "D", "]", " ", "p", "w", "d", "=", "h", "u", "n", "t",
       "e", "r", "2", "2" >>
Outputs ==
    { CleanText, NotaFiscalA, NotaFiscalB, NestedSecret, SameOffset, PartialOverlap,
      SpacedSecret, TwoSecrets, PlaceholderText }

\* new TheCensor(config, sessionId) and censorMiddleware(config)
Session1 == << "session-1" >>
Constructions ==
    { [by |-> "TheCensor", config |-> << >>, sessionId |-> Undefined],
      [by |-> "TheCensor", config |-> << >>, sessionId |-> Session1],
      [by |-> "TheCensor", config |-> [enableAuditLog |-> FALSE], sessionId |-> Undefined],
      [by |-> "TheCensor", config |-> [patternTypes |-> << "fiscal" >>],
       sessionId |-> Undefined] }
MiddlewareConfigs == { << >>, [enabled |-> FALSE], [logAllScans |-> TRUE] }

\* The arguments of updateConfig
CensorConfigUpdates == { [enabled |-> FALSE], [enabled |-> TRUE], [logAllScans |-> TRUE] }

\* The TheCensor constructor
Constructed(c) ==
    /\ censorConfig = Merge(DEFAULT_CENSOR_CONFIG, c.config)
    /\ sessionId = c.sessionId
    /\ securityLog = Merge(DEFAULT_CENSOR_CONFIG, c.config).enableAuditLog
    /\ censorMadeBy = c.by
    /\ scanCount = 0
    /\ redactionCount = 0
    /\ entryCount = 0
    /\ auditFile = << >>
    /\ scans = << >>

CensorInit == \E c \in Constructions : Constructed(c)

\* censorMiddleware(config): createCensor(config), no session id
MiddlewareInit ==
    \E config \in MiddlewareConfigs :
        Constructed([by |-> "censorMiddleware", config |-> config,
                     sessionId |-> Undefined])

CensorIdle == Constructed([by |-> "TheCensor", config |-> << >>, sessionId |-> Undefined])

SinkIdle == console = << >> /\ delivered = << >>

MaxDeliveries == 2

\* A text handed over, with the scan that was run for it: its input and
\* its output
NoScan == [ ran |-> FALSE, input |-> << >>, output |-> << >> ]
ScanOf(input, output) == [ ran |-> TRUE, input |-> input, output |-> output ]
Delivery(via, content, scan) == [ via |-> via, content |-> content, scan |-> scan ]

\* censor(output) once the result is known: the counters, the audit log,
\* the console
censorLogged(output, result, call, writeOk, now) ==
    /\ scanCount' = scanCount + 1
    /\ redactionCount' = redactionCount + Len(result.matches)
    /\ IF ~result.scanned
       THEN /\ writeOk
            /\ UNCHANGED <<auditFile, entryCount, console>>
       ELSE IF result.hasSensitiveData /\ securityLog
       THEN /\ auditFile' = IF writeOk
                            THEN Append(auditFile, SecurityAuditEntry(call, now))
                            ELSE auditFile
            /\ entryCount' = entryCount + 1
            /\ console' = console
                            \o invalidPatternWarnings(censorConfig.customPatterns, now)
                            \o logLines(SecurityAuditEntry(call, now), writeOk)
                            \o logScan(result, censorConfig, now)
       ELSE /\ writeOk
            /\ UNCHANGED <<auditFile, entryCount>>
            /\ console' = console
                            \o invalidPatternWarnings(censorConfig.customPatterns, now)
                            \o logScan(result, censorConfig, now)
    /\ scans' = Append(scans, [ output |-> output, config |-> censorConfig,
                                result |-> result, writeOk |-> writeOk,
                                returned |-> TRUE ])
    /\ UNCHANGED <<censorConfig, securityLog, sessionId, censorMadeBy>>

censorResulted(output, result, writeOk) ==
    censorLogged(output, result, logCensorResult(result, sessionId), writeOk,
                 scanCount + 1)

\* A call of censor() is in a loop that never ends: the call does not
\* return and nothing else of the program runs
Hung == \E i \in DOMAIN scans : ~scans[i].returned

\* censor(output) when the loop of a custom pattern never ends: scanCount
\* is counted, the patterns before it are scanned, and that is all
censorHung(output, now) ==
    /\ scanCount' = scanCount + 1
    /\ console' = console
                    \o invalidPatternWarnings(
                          PatternsReached(censorConfig.customPatterns, output), now)
    /\ scans' = Append(scans, [ output |-> output, config |-> censorConfig,
                                result |-> CensorResult(output, << >>,
                                                        Marked(output, TRUE), FALSE),
                                writeOk |-> TRUE, returned |-> FALSE ])
    /\ UNCHANGED <<censorConfig, securityLog, sessionId, censorMadeBy,
                   redactionCount, entryCount, auditFile>>

\* TheCensor.censor(output), also through check(output)
Censor(output, writeOk) ==
    /\ censorMadeBy = "TheCensor"
    /\ scanCount < MaxScans
    /\ ~Hung
    /\ IF censorLoops(output, censorConfig)
       THEN writeOk /\ censorHung(output, scanCount + 1)
       ELSE censorResulted(output, censor(output, censorConfig), writeOk)
    /\ UNCHANGED delivered
    /\ UNCHANGED notCensor

\* The function censorMiddleware(config) returns, applied to output
middlewareResulted(output, result, writeOk) ==
    /\ censorResulted(output, result, writeOk)
    /\ delivered' = Append(delivered,
                           Delivery("censorMiddleware", result.censoredOutput,
                                    IF result.scanned
                                    THEN ScanOf(output, result.censoredOutput)
                                    ELSE NoScan))

Middleware(output, writeOk) ==
    /\ censorMadeBy = "censorMiddleware"
    /\ scanCount < MaxScans
    /\ Len(delivered) < MaxDeliveries
    /\ ~Hung
    /\ IF censorLoops(output, censorConfig)
       THEN writeOk /\ censorHung(output, scanCount + 1) /\ UNCHANGED delivered
       ELSE middlewareResulted(output, censor(output, censorConfig), writeOk)
    /\ UNCHANGED notCensor

\* TheCensor.updateConfig(config)
TheCensor_updateConfig(config) ==
    /\ censorMadeBy = "TheCensor"
    /\ ~Hung
    /\ censorConfig' = Merge(censorConfig, config)
    /\ UNCHANGED <<securityLog, sessionId, censorMadeBy, scanCount, redactionCount,
                   entryCount, auditFile, scans>>
    /\ UNCHANGED sinkVars
    /\ UNCHANGED notCensor

CensorNext ==
    \/ \E output \in Outputs, writeOk \in BOOLEAN : Censor(output, writeOk)
    \/ \E config \in CensorConfigUpdates : TheCensor_updateConfig(config)

\* TheCensor with custom patterns: one that new RegExp rejects, one that
\* matches a word, one that matches the empty string
Unbalanced == CustomPattern("(", FALSE, << >>)
HelloPattern == CustomPattern("hello", TRUE, Chars(<< "h", "e", "l", "l", "o" >>))
DigitsStar == CustomPattern("\\d*", TRUE, << Cls(DigitSet, 0, 0) >>)

HelloSecret ==
    << "h", "e", "l", "l", "o", " ", "N", "F", "1", "2", "3", "4", "5", "6" >>
CustomOutputs == { CleanText, NotaFiscalA, NestedSecret, HelloSecret }

CustomConstructions ==
    { [by |-> "TheCensor", config |-> [customPatterns |-> patterns],
       sessionId |-> Undefined] :
         patterns \in { << HelloPattern >>, << Unbalanced, HelloPattern >>,
                        << Unbalanced >>, << DigitsStar >>,
                        << Unbalanced, DigitsStar, HelloPattern >> } }

CustomInit == \E c \in CustomConstructions : Constructed(c)

CustomNext ==
    \/ \E output \in CustomOutputs, writeOk \in BOOLEAN : Censor(output, writeOk)
    \/ \E config \in CensorConfigUpdates : TheCensor_updateConfig(config)

-----------------------------------------------------------------------------
(* TheCensor: claims                                                        *)

\* The offsets (from 1) of the characters of a reported match
SpanOf(m) == (m.index + 1)..(m.index + Len(m.match))

\* The characters of the scanned output that are still in censoredOutput
Remaining(result) == { result.origin[k] : k \in DOMAIN result.origin } \ {0}

\* C3: after censor(output), whatever matches overlap, nest or start at
\* the same offset, no character of a reported match span is left in
\* censoredOutput
C3_NoMatchedCharacterRemains ==
    \A i \in DOMAIN scans :
        \A k \in DOMAIN scans[i].result.matches :
            SpanOf(scans[i].result.matches[k]) \cap Remaining(scans[i].result) = {}

\* What the audit entry and the console lines may depend on
MatchMetadata(m) ==
    [ type |-> m.type, pattern |-> m.pattern, severity |-> m.severity,
      index |-> m.index, length |-> Len(m.match) ]
Metadata(result) ==
    [ matches |-> [k \in DOMAIN result.matches |-> MatchMetadata(result.matches[k])],
      outputLength |-> Len(result.originalOutput) ]

\* The audit entries written at a time, without id and timestamp
AuditAt(now) ==
    LET written == SelectSeq(auditFile, LAMBDA e : e.timestamp = now)
    IN [k \in DOMAIN written |->
          [ type |-> written[k].type, severity |-> written[k].severity,
            description |-> written[k].description,
            context |-> written[k].context,
            sessionId |-> written[k].sessionId,
            blocked |-> written[k].blocked ]]

\* The console lines written at a time
ConsoleAt(now) ==
    LET written == SelectSeq(console, LAMBDA l : l.at = now)
    IN [k \in DOMAIN written |->
          [ level |-> written[k].level, text |-> written[k].text,
            args |-> written[k].args ]]

\* Two scans whose results have the same match metadata, made under the
\* same configuration and with the same outcome of the file write
SameMetadata(i, j) ==
    /\ Metadata(scans[i].result) = Metadata(scans[j].result)
    /\ scans[i].config = scans[j].config
    /\ scans[i].writeOk = scans[j].writeOk

\* C4: the audit entries and console lines of a censor result depend only
\* on the match metadata: two scans that differ only in the characters of
\* the matched secrets write the same audit entries, apart from id and
\* timestamp, and the same console lines
C4_LogsDependOnMetadataOnly ==
    \A i \in DOMAIN scans : \A j \in DOMAIN scans :
        SameMetadata(i, j) =>
            /\ AuditAt(i) = AuditAt(j)
            /\ ConsoleAt(i) = ConsoleAt(j)

\* Two scans of texts with different secrets at the same place, both
\* written to the audit file and the console
C4_Witness ==
    /\ Len(scans) = 2
    /\ scans[1].output # scans[2].output
    /\ scans[1].result.hasSensitiveData
    /\ SameMetadata(1, 2)
    /\ Len(AuditAt(1)) = 1 /\ Len(AuditAt(2)) = 1
    /\ Len(ConsoleAt(1)) = 2 /\ Len(ConsoleAt(2)) = 2


\* C16: redaction is idempotent on its own output: scanning the
\* censoredOutput of a scan again, under the same configuration, reports no
\* match and returns that text unchanged
C16_RescanFindsNothing ==
    \A i \in DOMAIN scans :
        LET again == censor(scans[i].result.censoredOutput, scans[i].config)
        IN /\ again.matches = << >>
           /\ again.censoredOutput = scans[i].result.censoredOutput

\* The reported matches do not overlap, and each is the text at its position
Disjoint(matches) ==
    \A i, j \in DOMAIN matches :
        i # j => SpanOf(matches[i]) \cap SpanOf(matches[j]) = {}
AtItsPosition(output, m) == slice(output, m.index, m.index + Len(m.match)) = m.match

\* The number of places where p occurs in s
Occurrences(s, p) ==
    Cardinality({ k \in 0..(Len(s) - Len(p)) : SubSeq(s, k + 1, k + Len(p)) = p })

\* The offsets of the scanned output outside every match, in order, and the
\* offsets of the characters that censoredOutput keeps, in order
Uncovered(result) ==
    SelectSeq([k \in 1..Len(result.originalOutput) |-> k],
              LAMBDA k : \A i \in DOMAIN result.matches :
                            k \notin SpanOf(result.matches[i]))
KeptOffsets(result) == SelectSeq(result.origin, LAMBDA a : a # 0)

\* The scans whose pattern loops ran and reported matches that do not overlap
DisjointScans ==
    { i \in DOMAIN scans :
          scans[i].result.scanned /\ Disjoint(scans[i].result.matches) }

Severities(result) == { result.matches[k].severity : k \in DOMAIN result.matches }

\* C18: in every censor result, raiseAlert is true if and only if at least
\* one reported match has severity high or critical
C18_AlertIffHighOrCritical ==
    \A i \in DOMAIN scans :
        scans[i].result.raiseAlert
            <=> Severities(scans[i].result) \cap { "high", "critical" } # {}

\* A scan that reported a match of severity high and none that is critical,
\* with the alert raised, after a scan that reported matches of lower
\* severity only, without alert
C18_Witness ==
    /\ Len(scans) = 2
    /\ Severities(scans[1].result) # {}
    /\ Severities(scans[1].result) \cap { "high", "critical" } = {}
    /\ ~scans[1].result.raiseAlert
    /\ "high" \in Severities(scans[2].result)
    /\ "critical" \notin Severities(scans[2].result)
    /\ scans[2].result.raiseAlert


-----------------------------------------------------------------------------
(* SecurityAuditLog on its own: construction, log, getRecentEntries         *)

MaxEntries == 2
MaxDays == 1
MaxReads == 1
MaxLimit == 2

\* The arguments of new SecurityAuditLog / createSecurityAuditLog, which is
\* also what the TheCensor constructor calls (without arguments)
AuditConfigs == { << >>, [rotateLogs |-> FALSE] }

\* The arguments of log()
LogCalls ==
    { [ type |-> "leak_blocked", severity |-> "high",
        description |-> << "Sensitive data blocked" >>, context |-> << >>,
        sessionId |-> Session1 ],
      [ type |-> "suspicious_activity", severity |-> "low",
        description |-> << "Unusual request" >>, context |-> << >>,
        sessionId |-> Undefined ] }

\* getLogFilePath on a day
getLogFilePath(config, day) ==
    IF config.rotateLogs
    THEN << "security-audit-", day, ".jsonl" >>
    ELSE << "security-audit.jsonl" >>

\* JSON.stringify of an entry with its timestamp as ISO string: a key whose
\* value is undefined (sessionId is the optional one) is left out
JsonLine(entry) ==
    [k \in { f \in DOMAIN entry : ~(f = "sessionId" /\ entry[f] = Undefined) } |->
        IF k = "timestamp" THEN << "iso", entry[k] >> ELSE entry[k]]

\* JSON.parse of a line, with the timestamp made a Date again
ParsedEntry(line) ==
    [k \in DOMAIN line |-> IF k = "timestamp" THEN line[k][2] ELSE line[k]]

\* The lines of a log file, in the order they were appended
LinesOf(files, file) ==
    LET own == SelectSeq(files, LAMBDA l : l.file = file)
    IN [i \in DOMAIN own |-> own[i].line]

\* Array.prototype.slice(start)
sliceFrom(s, start) ==
    LET from == IF start < 0 THEN Max(Len(s) + start, 0) ELSE Min(start, Len(s))
    IN SubSeq(s, from + 1, Len(s))

\* getRecentEntries(limit) on the lines of the current log file, when the
\* file can be read
getRecentEntries(lines, limit) ==
    IF lines = << >> THEN << >>
    ELSE LET last == sliceFrom(lines, 0 - limit)
         IN [i \in DOMAIN last |-> ParsedEntry(last[i])]

NoAuditLog == [ state |-> "none", config |-> DEFAULT_AUDIT_CONFIG ]

AuditInit ==
    /\ logDir \in { "present", "absent", "blocked" }
    /\ auditLog = NoAuditLog
    /\ today = 0
    /\ logFiles = << >>
    /\ logged = << >>
    /\ recent = << >>

\* No SecurityAuditLog is used on its own
AuditIdle ==
    /\ logDir = "present"
    /\ auditLog = NoAuditLog
    /\ today = 0
    /\ logFiles = << >>
    /\ logged = << >>
    /\ recent = << >>

\* new SecurityAuditLog(config): ensureLogDir makes the directory when it
\* is not there, and mkdirSync throws when it cannot be made
SecurityAuditLog_constructor(config) ==
    /\ auditLog.state = "none"
    /\ auditLog' = [ state |-> IF logDir = "blocked" THEN "threw" ELSE "made",
                     config |-> Merge(DEFAULT_AUDIT_CONFIG, config) ]
    /\ logDir' = IF logDir = "absent" THEN "present" ELSE logDir
    /\ UNCHANGED <<today, logFiles, logged, recent>>
    /\ UNCHANGED <<censorVars, sinkVars, notAudit>>

\* log(type, severity, description, context, sessionId): the entry is
\* appended to the log file of the day, or the failure goes to the console;
\* the entry is returned
SecurityAuditLog_log(call, writeOk) ==
    /\ auditLog.state = "made"
    /\ Len(logged) < MaxEntries
    /\ LET entry == SecurityAuditEntry(call, Len(logged) + 1)
       IN /\ logFiles' = IF writeOk
                         THEN Append(logFiles,
                                     [ file |-> getLogFilePath(auditLog.config, today),
                                       line |-> JsonLine(entry) ])
                         ELSE logFiles
          /\ console' = console \o logLines(entry, writeOk)
          /\ entryCount' = entryCount + 1
          /\ logged' = Append(logged, [ entry |-> entry, written |-> writeOk ])
    /\ UNCHANGED <<logDir, auditLog, today, recent, delivered>>
    /\ UNCHANGED <<censorConfig, securityLog, sessionId, censorMadeBy, scanCount,
                   redactionCount, auditFile, scans>>
    /\ UNCHANGED notAudit

\* getRecentEntries(limit): the last entries of the current log file; an
\* empty list, and a line on the console, when the file cannot be read
SecurityAuditLog_getRecentEntries(limit, readOk) ==
    /\ auditLog.state = "made"
    /\ Len(recent) < MaxReads
    /\ LET lines == LinesOf(logFiles, getLogFilePath(auditLog.config, today))
       IN /\ lines = << >> => readOk
          /\ recent' = Append(recent,
                [ limit |-> limit, readOk |-> readOk,
                  written |-> [i \in DOMAIN logFiles |-> logFiles[i].line],
                  entries |-> IF readOk THEN getRecentEntries(lines, limit)
                              ELSE << >> ])
          /\ console' = IF readOk THEN console
                        ELSE Append(console,
                                    ConsoleLine("error",
                                                << "[SecurityAudit] Failed to read log file:" >>,
                                                << "error" >>, Len(logged)))
    /\ UNCHANGED <<logDir, auditLog, today, logFiles, logged, delivered>>
    /\ UNCHANGED <<censorVars, notAudit>>

\* Midnight passes
NextDay ==
    /\ today < MaxDays
    /\ today' = today + 1
    /\ UNCHANGED <<logDir, auditLog, logFiles, logged, recent>>
    /\ UNCHANGED <<censorVars, sinkVars, notAudit>>

AuditNext ==
    \/ \E config \in AuditConfigs : SecurityAuditLog_constructor(config)
    \/ \E call \in LogCalls, writeOk \in BOOLEAN : SecurityAuditLog_log(call, writeOk)
    \/ \E limit \in 0..MaxLimit, readOk \in BOOLEAN :
           SecurityAuditLog_getRecentEntries(limit, readOk)
    \/ NextDay

\* The console line that reports the failed append of an entry
WriteFailureReported(entry) ==
    \E k \in DOMAIN console : console[k] = writeEntryFailed(entry.timestamp)

\* C21: a failure to persist an audit entry never blocks or crashes the
\* action that triggered it: constructing the audit log (also from the
\* TheCensor constructor) does not throw when the log directory cannot be
\* made, and log() of an entry whose append fails still returns the entry,
\* with the failure reported by console.error.
C21_PersistFailureNeverCrashes ==
    /\ auditLog.state # "threw"
    /\ \A i \in DOMAIN logged :
          ~logged[i].written
              => /\ logged[i].entry.timestamp = i
                 /\ WriteFailureReported(logged[i].entry)

\* The last n of the lines recorded when getRecentEntries was called, as
\* entries
LastRecorded(written, n) ==
    [i \in 1..n |-> ParsedEntry(written[Len(written) - n + i])]

\* C22: after any sequence of recorded audit entries, getRecentEntries(N)
\* returns the last min(N, total) entries recorded, in recording order, for
\* every N >= 0, N = 0 and entries recorded before a daily rotation of the
\* log file included.
C22_RecentEntriesAreTheLastRecorded ==
    \A i \in DOMAIN recent :
        recent[i].readOk
            => recent[i].entries
                 = LastRecorded(recent[i].written,
                                Min(recent[i].limit, Len(recent[i].written)))

\* The custom patterns that compile, and the matches of each of them in turn
ValidPatterns(config) == SelectSeq(config.customPatterns, LAMBDA p : p.compiles)
HasInvalidPattern(config) == ValidPatterns(config) # config.customPatterns
RECURSIVE CustomMatches(_, _)
CustomMatches(patterns, output) ==
    IF patterns = << >> THEN << >>
    ELSE SensitiveMatches("custom", "custom", "high", Head(patterns).items, output)
         \o CustomMatches(Tail(patterns), output)

InvalidPatternWarned(now) ==
    \E k \in DOMAIN console :
        /\ console[k].at = now /\ console[k].level = "warn"
        /\ console[k].text = << "[Censor] Invalid custom pattern: ", Unbalanced.source >>

\* C27: a custom pattern that does not compile cannot disable scanning: with
\* such a pattern in the configuration censor does not throw (it returns
\* whenever it returns without that pattern), reports every match of the
\* built-in patterns and of the remaining custom patterns, and redacts as it
\* does without that pattern; the pattern is reported on the console.
C27_InvalidPatternIsSkipped ==
    \A i \in DOMAIN scans :
        LET cfg == scans[i].config
            output == scans[i].output
            without == [cfg EXCEPT !.customPatterns = ValidPatterns(cfg)]
        IN (cfg.enabled /\ HasInvalidPattern(cfg))
             => /\ scans[i].returned = ~censorLoops(output, without)
                /\ scans[i].returned
                     => /\ scans[i].result.matches
                             = ScanBuiltIn(SENSITIVE_PATTERNS, cfg, output)
                                 \o CustomMatches(ValidPatterns(cfg), output)
                        /\ scans[i].result.censoredOutput
                             = censor(output, without).censoredOutput
                        /\ InvalidPatternWarned(i)

\* A scan under a configuration with an invalid custom pattern that found a
\* match of a built-in pattern and a match of the custom pattern after the
\* invalid one, and redacted both
C27_Witness ==
    \E i \in DOMAIN scans :
        /\ scans[i].returned
        /\ HasInvalidPattern(scans[i].config)
        /\ scans[i].output = HelloSecret
        /\ Len(scans[i].result.matches) = 2
        /\ scans[i].result.matches[1].type = "fiscal"
        /\ scans[i].result.matches[2].type = "custom"
        /\ scans[i].result.censoredOutput
             = scans[i].config.replacementText \o << " " >>
                 \o scans[i].config.replacementText
        /\ InvalidPatternWarned(i)

\* C30: censor terminates and returns a finite list of matches for every
\* input text and every configuration, custom patterns that can match the
\* empty string included.
C30_CensorTerminates == \A i \in DOMAIN scans : scans[i].returned

-----------------------------------------------------------------------------
(* Echo and the integrated pulse: the texts they hand over                  *)

DEFAULT_ECHO_CONFIG ==
    [ enableCensor |-> TRUE, maxResponseLength |-> 4096, timeoutMs |-> 30000,
      verbose |-> TRUE, mockMode |-> TRUE ]

\* s.split(sep) for a one-character separator
RECURSIVE split(_, _)
split(s, sep) ==
    IF \E i \in DOMAIN s : s[i] = sep
    THEN LET i == CHOOSE i \in DOMAIN s : s[i] = sep /\ \A j \in 1..(i - 1) : s[j] # sep
         IN << SubSeq(s, 1, i - 1) >> \o split(SubSeq(s, i + 1, Len(s)), sep)
    ELSE << s >>

\* parts.join(sep)
RECURSIVE join(_, _)
join(parts, sep) ==
    IF parts = << >> THEN << >>
    ELSE IF Len(parts) = 1 THEN parts[1]
    ELSE parts[1] \o sep \o join(Tail(parts), sep)

\* Echo.analyzeIntent; "como está" is the last of the status words
analyzeIntent(message) ==
    LET content == toLowerCase(message.content)
    IN IF includes(content, << "?" >>) THEN "question"
       ELSE IF includes(content, << "a", "j", "u", "d" >>) \/ includes(content, << "h", "e", "l", "p" >>) THEN "help"
       ELSE IF includes(content, << "o", "b", "r", "i", "g", "a", "d" >>) \/ includes(content, << "t", "h", "a", "n", "k", "s" >>)
            THEN "gratitude"
       ELSE IF includes(content, << "p", "e", "s", "q", "u", "i", "s" >>) \/ includes(content, << "s", "e", "a", "r", "c", "h" >>)
            THEN "research"
       ELSE IF includes(content, << "s", "t", "a", "t", "u", "s" >>) \/ includes(content, << "c", "o", "m", "o", " ", "e", "s", "t", "a-acute" >>)
            THEN "status"
       ELSE "general"

\* Echo.generateMockResponse; generateLLMResponse returns the same
generateMockResponse(message, intent) ==
    CASE intent = "question" ->
           << "B", "o", "a", " ", "p", "e", "r", "g", "u", "n", "t", "a", "!", " ", "C", "o", "m", " ", "b", "a", "s", "e", " ", "n", "o", " ", "m", "e", "u", " ", "c", "o", "n", "h", "e", "c", "i", "m", "e", "n", "t", "o", " ", "s", "o", "b", "r", "e", " " >>
           \o join(slice(split(message.content, " "), 0, 3), << " " >>)
           \o << ".", ".", ".", ",", " ", "p", "o", "s", "s", "o", " ", "d", "i", "z", "e", "r", " ", "q", "u", "e", " ", "h", "a-acute", " ", "v", "a-acute", "r", "i", "a", "s", " ", "p", "e", "r", "s", "p", "e", "c", "t", "i", "v", "a", "s", " ", "a", " ", "c", "o", "n", "s", "i", "d", "e", "r", "a", "r", "." >>
      [] intent = "help" ->
           << "E", "s", "t", "o", "u", " ", "a", "q", "u", "i", " ", "p", "a", "r", "a", " ", "a", "j", "u", "d", "a", "r", "!", " ", "P", "o", "s", "s", "o", " ", "p", "e", "s", "q", "u", "i", "s", "a", "r", " ", "i", "n", "f", "o", "r", "m", "a", "c-cedilla", "o-tilde", "e", "s", ",", " ", "r", "e", "f", "l", "e", "t", "i", "r", " ", "s", "o", "b", "r", "e", " ", "t", "o-acute", "p", "i", "c", "o", "s", " ", "c", "o", "m", "p", "l", "e", "x", "o", "s", ",", " ", "o", "u", " ", "s", "i", "m", "p", "l", "e", "s", "m", "e", "n", "t", "e", " ", "c", "o", "n", "v", "e", "r", "s", "a", "r", " ", "s", "o", "b", "r", "e", " ", "s", "u", "a", "s", " ", "i", "d", "e", "i", "a", "s", "." >>
      [] intent = "gratitude" ->
           << "D", "e", " ", "n", "a", "d", "a", "!", " ", "F", "i", "c", "o", " ", "f", "e", "l", "i", "z", " ", "e", "m", " ", "p", "o", "d", "e", "r", " ", "a", "j", "u", "d", "a", "r", ".", " ", "S", "e", " ", "p", "r", "e", "c", "i", "s", "a", "r", " ", "d", "e", " ", "m", "a", "i", "s", " ", "a", "l", "g", "u", "m", "a", " ", "c", "o", "i", "s", "a", ",", " ", "e-acute", " ", "s", "o-acute", " ", "c", "h", "a", "m", "a", "r", "." >>
      [] intent = "research" ->
           << "V", "o", "u", " ", "i", "n", "v", "e", "s", "t", "i", "g", "a", "r", " ", "e", "s", "s", "e", " ", "t", "e", "m", "a", " ", "p", "a", "r", "a", " ", "v", "o", "c", "e-circumflex", ".", " ", "D", "e", "i", "x", "e", "-", "m", "e", " ", "a", "n", "a", "l", "i", "s", "a", "r", " ", "a", "s", " ", "f", "o", "n", "t", "e", "s", " ", "d", "i", "s", "p", "o", "n", "i-acute", "v", "e", "i", "s", " ", "e", " ", "t", "r", "a", "z", "e", "r", " ", "a", "s", " ", "i", "n", "f", "o", "r", "m", "a", "c-cedilla", "o-tilde", "e", "s", " ", "m", "a", "i", "s", " ", "r", "e", "l", "e", "v", "a", "n", "t", "e", "s", "." >>
      [] intent = "status" ->
           << "E", "s", "t", "o", "u", " ", "f", "u", "n", "c", "i", "o", "n", "a", "n", "d", "o", " ", "n", "o", "r", "m", "a", "l", "m", "e", "n", "t", "e", "!", " ", "M", "e", "u", " ", "u-acute", "l", "t", "i", "m", "o", " ", "p", "u", "l", "s", "o", " ", "f", "o", "i", " ", "h", "a-acute", " ", "a", "l", "g", "u", "n", "s", " ", "m", "i", "n", "u", "t", "o", "s", " ", "e", " ", "t", "o", "d", "o", "s", " ", "o", "s", " ", "s", "i", "s", "t", "e", "m", "a", "s", " ", "e", "s", "t", "a-tilde", "o", " ", "o", "p", "e", "r", "a", "c", "i", "o", "n", "a", "i", "s", "." >>
      [] OTHER ->
           << "E", "n", "t", "e", "n", "d", "i", " ", "s", "u", "a", " ", "m", "e", "n", "s", "a", "g", "e", "m", " ", "s", "o", "b", "r", "e", " ", "\"" >> \o slice(message.content, 0, 30)
           \o << ".", ".", ".", "\"", ".", " ", "V", "o", "u", " ", "p", "r", "o", "c", "e", "s", "s", "a", "r", " ", "e", " ", "r", "e", "s", "p", "o", "n", "d", "e", "r", " ", "d", "e", " ", "a", "c", "o", "r", "d", "o", " ", "c", "o", "m", " ", "m", "i", "n", "h", "a", " ", "c", "o", "m", "p", "r", "e", "e", "n", "s", "a-tilde", "o", " ", "e", " ", "o", " ", "c", "o", "n", "t", "e", "x", "t", "o", " ", "d", "o", " ", "n", "o", "s", "s", "o", " ", "h", "i", "s", "t", "o-acute", "r", "i", "c", "o", "." >>

\* The regular expressions of Echo.censorResponse and of censorOutput in
\* pulse.ts; api[_-]?key is written as its three spellings
CpfRegex ==
    RegExp(<< WordBoundary, Digits(3, 3) >> \o Chars(<< "." >>) \o << Digits(3, 3) >>
              \o Chars(<< "." >>) \o << Digits(3, 3) >> \o Chars(<< "-" >>)
              \o << Digits(2, 2), WordBoundary >>,
           FALSE)
EmailRegex ==
    RegExp(<< WordBoundary, Cls(Alnum \cup { ".", "_", "%", "+", "-" }, 1, 0) >>
              \o Chars(<< "@" >>) \o << Cls(Alnum \cup { ".", "-" }, 1, 0) >>
              \o Chars(<< "." >>) \o << Cls(LetterSet, 2, 0), WordBoundary >>,
           FALSE)
ApiKeyRegex ==
    RegExp(<< WordBoundary,
              Alt(<< << "a", "p", "i", "_", "k", "e", "y" >>, << "a", "p", "i", "-", "k", "e", "y" >>, << "a", "p", "i", "k", "e", "y" >>, << "s", "e", "c", "r", "e", "t" >>,
                     << "p", "a", "s", "s", "w", "o", "r", "d" >> >>, FALSE),
              Spaces(0, 0), Cls({ ":", "=" }, 1, 1), Spaces(0, 0),
              NotCls(SpaceSet, 1, 0) >>,
           TRUE)
PrivateIpRegex ==
    RegExp(<< WordBoundary >> \o Chars(<< "1", "9", "2", ".", "1", "6", "8", "." >>) \o << Digits(1, 0) >>
              \o Chars(<< "." >>) \o << Digits(1, 0), WordBoundary >>,
           FALSE)

\* s.replace(pattern, by) for a pattern with flag g, from the matches found
RECURSIVE replaceMatches(_, _, _, _)
replaceMatches(s, found, by, from) ==
    IF found = << >> THEN slice(s, from, Len(s))
    ELSE slice(s, from, found[1].index) \o by
         \o replaceMatches(s, Tail(found), by, found[1].index + found[1].length)

\* One turn of the loop: if (pattern.test(sanitized)) ... replace
censorStep(state, found) ==
    IF found = << >> THEN state
    ELSE [ content |-> replaceMatches(state.content, found, << "[", "R", "E", "D", "A", "C", "T", "E", "D", "]" >>, 0),
           wasCensored |-> TRUE ]

RECURSIVE censorLoop(_, _)
censorLoop(state, sensitivePatterns) ==
    IF sensitivePatterns = << >> THEN state
    ELSE censorLoop(censorStep(state, ExecAll(Head(sensitivePatterns), state.content, 0)),
                    Tail(sensitivePatterns))

\* Echo.censorResponse
censorResponse(content) ==
    censorLoop([content |-> content, wasCensored |-> FALSE],
               << CpfRegex, EmailRegex, ApiKeyRegex, PrivateIpRegex >>)

\* censorOutput of pulse.ts
censorOutput(output) ==
    censorLoop([content |-> output, wasCensored |-> FALSE],
               << CpfRegex, EmailRegex, ApiKeyRegex >>)

\* The messages received and the texts the pulse synthesizes
IncomingMessage(content) ==
    [ id |-> "msg-1", channel |-> "telegram", channelId |-> "chat-1",
      userId |-> "user-1", content |-> content ]
Messages ==
    { IncomingMessage(<< "h", "e", "l", "p" >>), IncomingMessage(<< "t", "h", "a", "n", "k", "s" >>),
      IncomingMessage(<< "s", "e", "a", "r", "c", "h", " ", "n", "e", "w", "s" >>), IncomingMessage(<< "s", "t", "a", "t", "u", "s" >>),
      IncomingMessage(<< "a", "@", "b", ".", "c", "o", " ", "?" >>), IncomingMessage(<< "p", "a", "s", "s", "w", "o", "r", "d", "=", "h", "u", "n", "t", "e", "r", "2", "2" >>),
      IncomingMessage(<< "p", "w", "d", "=", "N", "F", "1", "2", "3", "4", "5", "6", "a", "b", "c" >>) }
PulseOutputs == { CleanText, << "m", "a", "i", "l", " ", "a", "@", "b", ".", "c", "o" >>, NestedSecret }

\* new Echo(config)
EchoConfigs == { << >>, [enableCensor |-> FALSE], [maxResponseLength |-> 40] }

GatewayInit ==
    /\ echoConfig \in { Merge(DEFAULT_ECHO_CONFIG, c) : c \in EchoConfigs }
    /\ messageCount = 0

\* Echo at rest
GatewayIdle == echoConfig = DEFAULT_ECHO_CONFIG /\ messageCount = 0

\* Echo.log: the lines of one process() call
EchoLine(text, now) == ConsoleLine("log", << "[ECHO] " >> \o text, << >>, now)
processLines(message, intent, wasCensored, now) ==
    IF ~echoConfig.verbose THEN << >>
    ELSE << EchoLine(<< "Received message #", ToString(now), " from ",
                        message.channel, ":", message.userId >>, now),
            EchoLine(<< "   Content: \"" >> \o slice(message.content, 0, 50)
                        \o << "...\"" >>, now),
            EchoLine(<< "   Intent: ", intent >>, now) >>
         \o (IF wasCensored
             THEN << EchoLine(<< "   Response was censored" >>, now) >>
             ELSE << >>)
         \o << EchoLine(<< "   Response generated" >>, now) >>

\* Step 4 of process(): the response cut to maxResponseLength
truncatedContent(content) ==
    IF Len(content) > echoConfig.maxResponseLength
    THEN slice(content, 0, echoConfig.maxResponseLength - 3) \o << ".", ".", "." >>
    ELSE content

\* process() from the censored response on
processCensored(message, intent, rawResponse, censored) ==
    /\ messageCount' = messageCount + 1
    /\ console' = console
                    \o processLines(message, intent, censored.wasCensored,
                                    messageCount + 1)
    /\ delivered' = Append(delivered,
                           Delivery("Echo.process", truncatedContent(censored.content),
                                    IF echoConfig.enableCensor
                                    THEN ScanOf(rawResponse, censored.content)
                                    ELSE NoScan))
    /\ UNCHANGED echoConfig

\* process() from the raw response on
processResponse(message, intent, rawResponse) ==
    processCensored(message, intent, rawResponse,
                    IF echoConfig.enableCensor
                    THEN censorResponse(rawResponse)
                    ELSE [content |-> rawResponse, wasCensored |-> FALSE])

processIntent(message, intent) ==
    processResponse(message, intent, generateMockResponse(message, intent))

\* Echo.process(message); no step of its try block throws
Process(message) ==
    /\ Len(delivered) < MaxDeliveries
    /\ processIntent(message, analyzeIntent(message))
    /\ UNCHANGED notGateway

\* Phase 5 of runIntegratedPulse once the output is censored
pulseCensored(output, censorResult) ==
    /\ console' = console
                    \o << ConsoleLine("log",
                                      << "[SHIELD]: ",
                                         IF censorResult.wasCensored
                                         THEN "Dados sensiveis detectados e removidos"
                                         ELSE "Saida verificada. Nenhum dado sensivel." >>,
                                      << >>, Len(delivered) + 1),
                          ConsoleLine("log", censorResult.content, << >>,
                                      Len(delivered) + 1) >>
    /\ delivered' = Append(delivered,
                           Delivery("runIntegratedPulse", censorResult.content,
                                    ScanOf(output, censorResult.content)))

\* runIntegratedPulse, from the synthesized output on
runIntegratedPulse(output) ==
    /\ Len(delivered) < MaxDeliveries
    /\ pulseCensored(output, censorOutput(output))
    /\ UNCHANGED gatewayVars
    /\ UNCHANGED notGateway

GatewayNext ==
    \/ \E message \in Messages : Process(message)
    \/ \E output \in PulseOutputs : runIntegratedPulse(output)
    \/ \E output \in Outputs, writeOk \in BOOLEAN : Middleware(output, writeOk)

\* What was scanned is what is handed over
Scanned(d) == d.scan.ran /\ d.scan.output = d.content

\* C6: under every configuration, each text handed to a user or channel by
\* Echo.process, runIntegratedPulse or the censor middleware is the output
\* of a sensitive-data scan
C6_EveryDeliveredTextWasScanned ==
    \A k \in DOMAIN delivered : Scanned(delivered[k])

-----------------------------------------------------------------------------
(* NetworkJail on its own: construction and generateIptablesRules           *)

JailCidrs ==
    { << >>, << "10.0.0.0/8" >>, << "10.0.0.0/8", "192.168.0.0/16" >>,
      PRIVATE_NETWORKS }
JailPorts == { << >>, << "443" >>, WEB_PORTS }

\* The config argument of new NetworkJail(config)
JailConfigs ==
    { << >> } \cup
    [ blockedCIDRs : JailCidrs, allowedPorts : JailPorts,
      defaultDeny : BOOLEAN, allowICMP : BOOLEAN, blockDockerMeta : BOOLEAN,
      logBlocked : BOOLEAN ]

\* new NetworkJail(config): this.config = { ...DEFAULT_NETWORK_JAIL_CONFIG,
\* ...config }
NetworkJail(config) ==
    [ config |-> Merge(DEFAULT_NETWORK_JAIL_CONFIG, config),
      generated |-> FALSE, rules |-> << >> ]

JailInit == \E config \in JailConfigs : jail = NetworkJail(config)

JailIdle == jail = NetworkJail(<< >>)

NetworkJail_generateIptablesRules ==
    /\ ~jail.generated
    /\ jail' = [jail EXCEPT !.generated = TRUE,
                            !.rules = generateIptablesRules(jail.config)]
    /\ UNCHANGED <<sandboxVars, browserVars, censorVars, auditVars,
                   gatewayVars, sinkVars, filterVars, heartVars>>

JailNext == NetworkJail_generateIptablesRules

\* Where the rules of each part start: k rules per blocked range, then the
\* metadata addresses, the ICMP rule, the allowed ports and the catch-all
PerCidr(cfg) == IF cfg.logBlocked THEN 2 ELSE 1
MetaFrom(cfg) == PerCidr(cfg) * Len(cfg.blockedCIDRs)
IcmpFrom(cfg) ==
    MetaFrom(cfg) + (IF cfg.blockDockerMeta THEN Len(DOCKER_METADATA_IPS) ELSE 0)
PortsFrom(cfg) == IcmpFrom(cfg) + (IF cfg.allowICMP THEN 0 ELSE 1)
RuleCount(cfg) ==
    PortsFrom(cfg) + (IF cfg.defaultDeny THEN Len(cfg.allowedPorts) + 1 ELSE 0)

IsDenyOf(rule, d) == rule = [d |-> d, p |-> "", dport |-> "", j |-> "DROP"]
IsLogOf(rule, d) == rule = [d |-> d, p |-> "", dport |-> "", j |-> "LOG"]
IsCatchAll(rule) == IsDenyOf(rule, "")
IsAllow(rule) == rule.j = "ACCEPT"

InContractOrder(cfg, rules) ==
    /\ Len(rules) = RuleCount(cfg)
    /\ \A i \in DOMAIN cfg.blockedCIDRs :
          /\ IsDenyOf(rules[PerCidr(cfg) * i], cfg.blockedCIDRs[i])
          /\ cfg.logBlocked
               => IsLogOf(rules[PerCidr(cfg) * i - 1], cfg.blockedCIDRs[i])
    /\ cfg.blockDockerMeta
         => \A i \in DOMAIN DOCKER_METADATA_IPS :
                IsDenyOf(rules[MetaFrom(cfg) + i], DOCKER_METADATA_IPS[i])
    /\ ~cfg.allowICMP
         => rules[IcmpFrom(cfg) + 1]
              = [d |-> "", p |-> "icmp", dport |-> "", j |-> "DROP"]
    /\ cfg.defaultDeny
         => /\ \A i \in DOMAIN cfg.allowedPorts :
                  rules[PortsFrom(cfg) + i]
                    = [d |-> "", p |-> "tcp", dport |-> cfg.allowedPorts[i],
                       j |-> "ACCEPT"]
            /\ IsCatchAll(rules[Len(rules)])

\* C23: for every NetworkJail configuration generateIptablesRules emits, in
\* this order, per blocked CIDR its optional log rule and then its deny
\* rule, the metadata-address denies, the ICMP deny unless allowed, and only
\* under defaultDeny one allow rule per allowed port and a single catch-all
\* deny; no allow rule precedes a deny of a blocked range and the catch-all
\* deny, when present, is last.
C23_RulesInContractOrder ==
    jail.generated
        => /\ InContractOrder(jail.config, jail.rules)
           /\ \A i, k \in DOMAIN jail.rules :
                 /\ IsAllow(jail.rules[i])
                 /\ \E c \in DOMAIN jail.config.blockedCIDRs :
                        IsDenyOf(jail.rules[k], jail.config.blockedCIDRs[c])
                 => k < i
           /\ \A i \in DOMAIN jail.rules :
                 IsCatchAll(jail.rules[i])
                     => i = Len(jail.rules) /\ jail.config.defaultDeny

C23_Witness ==
    /\ jail.generated
    /\ jail.config.defaultDeny /\ jail.config.logBlocked
    /\ jail.config.blockDockerMeta /\ ~jail.config.allowICMP
    /\ Len(jail.config.blockedCIDRs) = 2
    /\ Len(jail.config.allowedPorts) = 2
    /\ Len(jail.rules) = 10

-----------------------------------------------------------------------------
(* ContentFilter on its own: the policy document, construction and         *)
(* filterContent                                                            *)

MaxFilterCalls == 2

\* The sections of a BrowserPolicy
PolicySections ==
    { "blocklist", "allowlist", "contentRules", "searchEngines",
      "sensitiveDataPatterns", "rateLimit" }

\* A JSON document with the given sections (their values are those of the
\* built-in policy) and its own version
PolicyJson(sections) ==
    [k \in sections \cup {"version"} |->
        IF k = "version" THEN "1.0.0" ELSE getMinimalPolicy[k]]

PolicyDocuments ==
    { PolicyFile(kind, << >>) : kind \in {"missing", "unreadable", "malformed"} }
    \cup { PolicyFile("json", PolicyJson(PolicySections \ lacking)) :
              lacking \in { {} } \cup { {k} : k \in PolicySections }
                              \cup { PolicySections } }

CompletePolicy(file) ==
    file.kind = "json" /\ PolicySections \subseteq DOMAIN file.value

FilterHtmls ==
    { << "<", "s", "c", "r", "i", "p", "t", ">", "e", "v", "i", "l", "(", ")", "<", "/", "s", "c", "r", "i", "p", "t", ">", "<", "p", ">", "h", "i", "<", "/", "p", ">" >>,
      << "<", "p", ">", "h", "i", "<", "/", "p", ">", "<", "s", "c", "r", "i", "p", "t", ">", "e", "v", "i", "l", "(", ")" >>,
      << "<", "s", "c", "r", "<", "s", "c", "r", "i", "p", "t", ">", "<", "/", "s", "c", "r", "i", "p", "t", ">", "i", "p", "t", ">", "e", "v", "i", "l", "(", ")", "<", "/", "s", "c", "r", "i", "p", "t", ">", "h", "i" >>,
      << "<", "s", "c", "r", "i", "p", "t", " ", ">", "e", "v", "i", "l", "(", ")", "<", "/", "s", "c", "r", "i", "p", "t", " ", ">", "h", "i" >>,
      << "<", "S", "C", "R", "I", "P", "T", " ", "S", "R", "C", "=", "x", ">", "<", "/", "S", "C", "R", "I", "P", "T", ">", "h", "i" >>,
      << "<", "p", " ", "o", "n", "c", "l", "i", "c", "k", "=", "\"", "e", "v", "i", "l", "(", ")", "\"", ">", "h", "i", "<", "/", "p", ">" >> }

NoContentFilter == [ state |-> "none", policy |-> getMinimalPolicy ]

\* new ContentFilter(): this.policy = loadDefaultPolicy(), then the regular
\* expressions are compiled from this.policy.blocklist.patterns and
\* this.policy.sensitiveDataPatterns: a TypeError when a section is undefined
ContentFilter(file) ==
    LET p == loadDefaultPolicy(file)
    IN [ state |-> IF {"blocklist", "sensitiveDataPatterns"} \subseteq DOMAIN p
                   THEN "made" ELSE "threw",
         policy |-> p ]

FilterInit ==
    /\ policyFile \in PolicyDocuments
    /\ contentFilter = NoContentFilter
    /\ filtered = << >>

FilterIdle ==
    /\ policyFile = NoPolicyFile
    /\ contentFilter = NoContentFilter
    /\ filtered = << >>

ContentFilter_constructor ==
    /\ contentFilter.state = "none"
    /\ contentFilter' = ContentFilter(policyFile)
    /\ UNCHANGED <<policyFile, filtered, sandboxVars, browserVars, censorVars,
                   auditVars, gatewayVars, sinkVars, jailVars,
                   heartVars>>

\* filterContent(html, url) of the filter made: a TypeError when
\* this.policy.contentRules is undefined
ContentFilter_filterContent(html) ==
    /\ contentFilter.state = "made"
    /\ Len(filtered) < MaxFilterCalls
    /\ IF "contentRules" \in DOMAIN contentFilter.policy
       THEN \E out \in { filterContent(html, blockLastIndex, warnLastIndex) } :
               /\ filtered' = Append(filtered, [ html |-> html, threw |-> FALSE,
                                                 result |-> out.result ])
               /\ blockLastIndex' = out.blockLastIndex
               /\ warnLastIndex' = out.warnLastIndex
       ELSE /\ filtered' = Append(filtered, [ html |-> html, threw |-> TRUE,
                                              result |-> NoFilter ])
            /\ UNCHANGED <<blockLastIndex, warnLastIndex>>
    /\ UNCHANGED <<policyFile, contentFilter, requestCount, clock, navs,
                   admitted, sandboxVars, censorVars, auditVars, gatewayVars,
                   sinkVars, jailVars,
                   heartVars>>

FilterNext ==
    \/ ContentFilter_constructor
    \/ \E html \in FilterHtmls : ContentFilter_filterContent(html)

\* C24: if the policy document is missing, unreadable, not valid JSON, or
\* valid JSON that lacks required sections, loading the policy and
\* constructing the ContentFilter still succeed and the built-in minimal
\* policy is in force.
C24_BadPolicyFallsBackToMinimal ==
    contentFilter.state # "none" /\ ~CompletePolicy(policyFile)
        => /\ contentFilter.state = "made"
           /\ contentFilter.policy = getMinimalPolicy

\* C28: for every HTML input accepted by filterContent with script stripping
\* enabled, unterminated, nested or oddly spaced script tags included, the
\* sanitized output contains no "<script" substring, and the visible text
\* outside scripts is kept.
C28_NoScriptTagInSanitizedOutput ==
    \A i \in DOMAIN filtered :
        /\ ~filtered[i].threw
        /\ filtered[i].result.allowed
        /\ contentFilter.policy.contentRules.stripScripts
        => /\ ~includes(filtered[i].result.sanitizedContent, << "<", "s", "c", "r", "i", "p", "t" >>)
           /\ includes(filtered[i].result.sanitizedContent, << "h", "i" >>)

-----------------------------------------------------------------------------
(* PulseStateMachine: idle, reflexion, action                               *)

MaxPulseCalls == 5

PulseStates == { "idle", "reflexion", "action" }

\* cycleId: null, or PULSE-<date>-<random>
NoCycle == "null"
CycleIds == { "PULSE-1", "PULSE-2" }

NoCycleResult ==
    [ cycleId |-> NoCycle, actionTaken |-> FALSE, stateSequence |-> << >> ]

\* new PulseStateMachine(): the field initialisers
PulseStateMachine ==
    [ currentState |-> "idle", cycleId |-> NoCycle, stateSequence |-> << >> ]

isInCycle(m) == m.cycleId # NoCycle

validTransitions ==
    [ idle |-> { "reflexion", "idle" },
      reflexion |-> { "action", "idle" },
      action |-> { "idle" } ]

isValidTransition(from, to) == to \in validTransitions[from]

\* What a method call leaves: whether it threw, the machine after it, and
\* the CycleResult it returned (completeCycle only)
PulseOutcome(threw, m, result) ==
    [ threw |-> threw, machine |-> m, result |-> result ]

startCycle_Unchecked(m, id) ==
    PulseOutcome(FALSE,
        [m EXCEPT !.cycleId = id, !.stateSequence = << "idle" >>],
        NoCycleResult)

startCycle(m, id) ==
    IF isInCycle(m)
    THEN PulseOutcome(TRUE, m, NoCycleResult)
    ELSE PulseOutcome(FALSE,
             [m EXCEPT !.cycleId = id, !.stateSequence = << "idle" >>],
             NoCycleResult)

transition(m, to) ==
    IF ~isValidTransition(m.currentState, to)
    THEN PulseOutcome(TRUE, m, NoCycleResult)
    ELSE PulseOutcome(FALSE,
             [m EXCEPT !.currentState = to,
                       !.stateSequence = Append(@, to)],
             NoCycleResult)

\* completeCycle: the result is built (the sequence copied) before the
\* machine is put back to idle
completeCycle(m, actionTaken) ==
    IF ~isInCycle(m)
    THEN PulseOutcome(TRUE, m, NoCycleResult)
    ELSE LET result == [ cycleId |-> m.cycleId, actionTaken |-> actionTaken,
                         stateSequence |-> m.stateSequence ]
             toIdle == transition(m, "idle")
         IN  IF toIdle.threw
             THEN PulseOutcome(TRUE, toIdle.machine, NoCycleResult)
             ELSE PulseOutcome(FALSE,
                      [toIdle.machine EXCEPT !.cycleId = NoCycle,
                                             !.stateSequence = << >>],
                      result)

\* pulseLog: the calls made so far; passed, the states the machine was in
\* since the cycle began; the last CycleResult with the states passed when
\* it was built; whether the last call threw, and the machine before it
NoPulseLog ==
    [ calls |-> 0, passed |-> << >>, reported |-> NoCycleResult,
      reportedPassed |-> << >>, threw |-> FALSE, before |-> PulseStateMachine,
      requested |-> "none" ]

PulseInit ==
    /\ pulse = PulseStateMachine
    /\ pulseLog = NoPulseLog

PulseIdle == PulseInit

PulseStateMachine_startCycle(id) ==
    /\ pulseLog.calls < MaxPulseCalls
    /\ LET out == startCycle(pulse, id)
       IN  /\ pulse' = out.machine
           /\ pulseLog' =
                 [pulseLog EXCEPT
                     !.calls = @ + 1, !.threw = out.threw, !.before = pulse,
                     !.requested = "startCycle",
                     !.passed = IF out.threw THEN @
                                ELSE << pulse.currentState >>]
    /\ UNCHANGED notPulse

PulseStateMachine_transition(to) ==
    /\ pulseLog.calls < MaxPulseCalls
    /\ LET out == transition(pulse, to)
       IN  /\ pulse' = out.machine
           /\ pulseLog' =
                 [pulseLog EXCEPT
                     !.calls = @ + 1, !.threw = out.threw, !.before = pulse,
                     !.requested = to,
                     !.passed = IF out.threw \/ ~isInCycle(pulse) THEN @
                                ELSE Append(@, to)]
    /\ UNCHANGED notPulse

PulseStateMachine_completeCycle(actionTaken) ==
    /\ pulseLog.calls < MaxPulseCalls
    /\ LET out == completeCycle(pulse, actionTaken)
       IN  /\ pulse' = out.machine
           /\ pulseLog' =
                 [pulseLog EXCEPT
                     !.calls = @ + 1, !.threw = out.threw, !.before = pulse,
                     !.requested = "completeCycle",
                     !.reported = IF out.threw THEN @ ELSE out.result,
                     !.reportedPassed = IF out.threw THEN @
                                        ELSE pulseLog.passed,
                     !.passed = IF out.threw THEN @ ELSE << >>]
    /\ UNCHANGED notPulse

PulseNext ==
    \/ \E id \in CycleIds : PulseStateMachine_startCycle(id)
    \/ \E to \in PulseStates : PulseStateMachine_transition(to)
    \/ \E actionTaken \in BOOLEAN : PulseStateMachine_completeCycle(actionTaken)

IsValidPath(seq) ==
    /\ Len(seq) >= 1
    /\ seq[1] = "idle"
    /\ \A i \in 1..(Len(seq) - 1) : isValidTransition(seq[i], seq[i + 1])

\* C32: PulseStateMachine changes state only along idle-reflexion,
\* idle-idle, reflexion-action, reflexion-idle and action-idle, a
\* transition that is not one of these throws and leaves the current state
\* and the recorded sequence as they were, and so the state sequence
\* reported for a cycle is a path of valid transitions that starts at idle
\* and matches the states the machine was in.
C32_ReportedSequenceIsAValidPath ==
    /\ pulseLog.requested \in PulseStates =>
          IF isValidTransition(pulseLog.before.currentState, pulseLog.requested)
          THEN ~pulseLog.threw /\ pulse.currentState = pulseLog.requested
          ELSE pulseLog.threw /\ pulse = pulseLog.before
    /\ pulseLog.requested \notin PulseStates /\ pulseLog.requested # "none" =>
          \/ pulse.currentState = pulseLog.before.currentState
          \/ isValidTransition(pulseLog.before.currentState, pulse.currentState)
    /\ pulseLog.reported # NoCycleResult =>
          /\ IsValidPath(pulseLog.reported.stateSequence)
          /\ pulseLog.reported.stateSequence = pulseLog.reportedPassed

-----------------------------------------------------------------------------
(* SaraScheduler: pulses on an interval, the pulse lock, the error pause    *)
(* and stop().  Times are in ms; the verbose log lines are left out.        *)

MaxSaraTicks == 8
MaxSaraCalls == 2

\* Cron expressions: the minute field, a step or a number, and the four
\* fields after it
EveryMinutes(n) == [ minute |-> << "*/", n >>, rest |-> << "*", "*", "*", "*" >> ]
Hourly == [ minute |-> << "", 0 >>, rest |-> << "*", "*", "*", "*" >> ]

DEFAULT_SCHEDULER_CONFIG ==
    [ cronExpression |-> EveryMinutes(30),
      maxConsecutiveErrors |-> 3,
      errorPauseDurationMs |-> 300000 ]

SchedulerConfigs ==
    { DEFAULT_SCHEDULER_CONFIG,
      [DEFAULT_SCHEDULER_CONFIG EXCEPT !.cronExpression = EveryMinutes(1)],
      [DEFAULT_SCHEDULER_CONFIG EXCEPT !.cronExpression = Hourly] }

\* cronToIntervalMs: */N * * * * is every N minutes, anything else 30 minutes
cronToIntervalMs(cron) ==
    IF /\ cron.minute[1] = "*/"
       /\ \A i \in 1..4 : cron.rest[i] = "*"
    THEN cron.minute[2] * 60 * 1000
    ELSE 30 * 60 * 1000

\* initializeMetrics, without the dates and the text of the last error
initializeMetrics ==
    [ totalPulses |-> 0, successfulPulses |-> 0, failedPulses |-> 0,
      researchPulses |-> 0, idlePulses |-> 0, consecutiveErrors |-> 0 ]

\* new SaraScheduler(config)
SaraScheduler(config) ==
    [ config |-> config, state |-> "STOPPED", metrics |-> initializeMetrics,
      cronJob |-> FALSE, isProcessing |-> FALSE, shutdownRequested |-> FALSE ]

\* What executePulse leaves when it returns or reaches its await: the
\* scheduler, whether runIntegratedPulse was called, whether the recovery
\* timer was set
PulseStep(s, began, paused) == [ sched |-> s, began |-> began, paused |-> paused ]

executePulse_NoLock(s) ==
    IF s.shutdownRequested THEN PulseStep(s, FALSE, FALSE)
    ELSE IF s.metrics.consecutiveErrors >= s.config.maxConsecutiveErrors
    THEN PulseStep([s EXCEPT !.state = "ERROR"], FALSE, TRUE)
    ELSE PulseStep([s EXCEPT !.isProcessing = TRUE, !.state = "PULSING",
                             !.metrics.totalPulses = @ + 1], TRUE, FALSE)

\* executePulse up to await runIntegratedPulse(...)
executePulse(s) ==
    IF s.isProcessing THEN PulseStep(s, FALSE, FALSE)
    ELSE IF s.shutdownRequested THEN PulseStep(s, FALSE, FALSE)
    ELSE IF s.metrics.consecutiveErrors >= s.config.maxConsecutiveErrors
    THEN PulseStep([s EXCEPT !.state = "ERROR"], FALSE, TRUE)
    ELSE PulseStep([s EXCEPT !.isProcessing = TRUE, !.state = "PULSING",
                             !.metrics.totalPulses = @ + 1], TRUE, FALSE)

\* executePulse after the await: try, catch and finally
PulseOutcomes == { "research", "idle", "throws" }

pulseSettled(s, outcome) ==
    LET m == s.metrics
        counted ==
            IF outcome = "throws"
            THEN [m EXCEPT !.failedPulses = @ + 1, !.consecutiveErrors = @ + 1]
            ELSE [m EXCEPT !.successfulPulses = @ + 1,
                           !.consecutiveErrors = 0,
                           !.researchPulses =
                               IF outcome = "research" THEN @ + 1 ELSE @,
                           !.idlePulses =
                               IF outcome = "idle" THEN @ + 1 ELSE @]
    IN  [s EXCEPT !.metrics = counted, !.isProcessing = FALSE, !.state = "IDLE"]

\* The timers of one executePulse call: the recovery timer it set, if any
withPause(timers, step, now) ==
    IF step.paused
    THEN [timers EXCEPT !.pauses =
              @ \cup { now + step.sched.config.errorPauseDurationMs }]
    ELSE timers

\* The history after one executePulse call
noted(log, step, now, event) ==
    [log EXCEPT !.last = event,
                !.inFlight = IF step.began THEN @ + 1 ELSE @,
                !.pauseBegan = IF step.paused /\ @ = -1 THEN now ELSE @]

NoTimers == [ interval |-> 0, pauses |-> {} ]
NoSaraCalls == [ start |-> "idle", stop |-> "idle" ]
NoSaraLog ==
    [ inFlight |-> 0, ticks |-> 0, starts |-> 0, stops |-> 0, last |-> "new",
      stopped |-> FALSE, pauseBegan |-> -1 ]

SaraInit ==
    /\ sara \in { SaraScheduler(config) : config \in SchedulerConfigs }
    /\ saraTimers = NoTimers
    /\ saraClock = 0
    /\ saraCalls = NoSaraCalls
    /\ saraLog = NoSaraLog

SaraIdle ==
    /\ sara = SaraScheduler(DEFAULT_SCHEDULER_CONFIG)
    /\ saraTimers = NoTimers
    /\ saraClock = 0
    /\ saraCalls = NoSaraCalls
    /\ saraLog = NoSaraLog

\* start() after executePulse has resolved: setInterval
scheduled(s, timers, now) ==
    [ sched |-> [s EXCEPT !.cronJob = TRUE],
      timers |-> [timers EXCEPT !.interval =
                      now + cronToIntervalMs(s.config.cronExpression)] ]

\* start(): returns at once unless STOPPED; otherwise the first pulse, and
\* when executePulse returned without awaiting, the interval as well
SaraScheduler_start ==
    /\ saraLog.starts < MaxSaraCalls
    /\ saraCalls.start = "idle"
    /\ IF sara.state # "STOPPED"
       THEN /\ saraLog' = [saraLog EXCEPT !.starts = @ + 1, !.stopped = FALSE,
                                          !.last = "start refused"]
            /\ UNCHANGED <<sara, saraTimers, saraCalls>>
       ELSE LET fresh == [sara EXCEPT !.state = "IDLE",
                                      !.metrics = initializeMetrics]
                step == executePulse(fresh)
                log == [noted(saraLog, step, saraClock, "start")
                           EXCEPT !.starts = @ + 1, !.stopped = FALSE,
                                  !.pauseBegan = -1]
            IN  /\ saraLog' = log
                /\ IF step.began
                   THEN /\ sara' = step.sched
                        /\ saraCalls' = [saraCalls EXCEPT !.start = "awaiting"]
                        /\ saraTimers' = withPause(saraTimers, step, saraClock)
                   ELSE LET after == scheduled(step.sched,
                                withPause(saraTimers, step, saraClock),
                                saraClock)
                        IN  /\ sara' = after.sched
                            /\ saraTimers' = after.timers
                            /\ UNCHANGED saraCalls
    /\ UNCHANGED <<saraClock, notSara>>

\* The setInterval callback
SaraScheduler_tick ==
    /\ sara.cronJob
    /\ saraTimers.interval <= saraClock
    /\ saraLog.ticks < MaxSaraTicks
    /\ LET step == IF sara.shutdownRequested
                   THEN PulseStep(sara, FALSE, FALSE)
                   ELSE executePulse(sara)
           timers == [saraTimers EXCEPT !.interval =
                         @ + cronToIntervalMs(sara.config.cronExpression)]
       IN  /\ sara' = step.sched
           /\ saraTimers' = withPause(timers, step, saraClock)
           /\ saraLog' = [noted(saraLog, step, saraClock,
                                 IF sara.isProcessing THEN "tick in pulse"
                                 ELSE "tick")
                             EXCEPT !.ticks = @ + 1]
    /\ UNCHANGED <<saraClock, saraCalls, notSara>>

\* runIntegratedPulse resolves or rejects; a start() that awaited the first
\* pulse goes on to setInterval
SaraScheduler_pulseSettles(outcome) ==
    /\ saraLog.inFlight > 0
    /\ LET s == pulseSettled(sara, outcome)
           log == [saraLog EXCEPT
                      !.inFlight = @ - 1,
                      !.last = outcome,
                      !.pauseBegan = IF outcome = "throws" THEN @ ELSE -1]
       IN  /\ saraLog' = log
           /\ IF saraCalls.start = "awaiting"
              THEN LET after == scheduled(s, saraTimers, saraClock)
                   IN  /\ sara' = after.sched
                       /\ saraTimers' = after.timers
                       /\ saraCalls' = [saraCalls EXCEPT !.start = "idle"]
              ELSE /\ sara' = s
                   /\ UNCHANGED <<saraTimers, saraCalls>>
    /\ UNCHANGED <<saraClock, notSara>>

\* The setTimeout callback of the error pause
SaraScheduler_recover(due) ==
    /\ due \in saraTimers.pauses
    /\ due <= saraClock
    /\ sara' = [sara EXCEPT !.metrics.consecutiveErrors = 0, !.state = "IDLE"]
    /\ saraTimers' = [saraTimers EXCEPT !.pauses = @ \ { due }]
    /\ saraLog' = [saraLog EXCEPT !.last = "recover", !.pauseBegan = -1]
    /\ UNCHANGED <<saraClock, saraCalls, notSara>>

\* stop() from the loop on: clearInterval, STOPPED
stopped(s) == [s EXCEPT !.cronJob = FALSE, !.state = "STOPPED"]

\* stop() up to its first await, or to its end when no pulse is in flight
SaraScheduler_stop ==
    /\ saraLog.stops < MaxSaraCalls
    /\ saraCalls.stop = "idle"
    /\ LET s == [sara EXCEPT !.shutdownRequested = TRUE, !.state = "SHUTDOWN"]
       IN  IF s.isProcessing
           THEN /\ sara' = s
                /\ saraCalls' = [saraCalls EXCEPT !.stop = "waiting"]
                /\ saraLog' = [saraLog EXCEPT !.stops = @ + 1, !.last = "stop"]
           ELSE /\ sara' = stopped(s)
                /\ saraLog' = [saraLog EXCEPT !.stops = @ + 1, !.last = "stop",
                                              !.stopped = TRUE]
                /\ UNCHANGED saraCalls
    /\ UNCHANGED <<saraTimers, saraClock, notSara>>

\* stop(): one round of while (this.isProcessing) await sleep(100)
SaraScheduler_stopPoll ==
    /\ saraCalls.stop = "waiting"
    /\ ~sara.isProcessing
    /\ sara' = stopped(sara)
    /\ saraCalls' = [saraCalls EXCEPT !.stop = "idle"]
    /\ saraLog' = [saraLog EXCEPT !.last = "stopped", !.stopped = TRUE]
    /\ UNCHANGED <<saraTimers, saraClock, notSara>>

\* The timers that are set, and time passing up to the next of them; a timer
\* that is due fires before time goes on
PendingTimers ==
    saraTimers.pauses \cup (IF sara.cronJob THEN { saraTimers.interval } ELSE {})

SaraTimePasses ==
    /\ PendingTimers # {}
    /\ \A due \in PendingTimers : due > saraClock
    /\ saraClock' = CHOOSE due \in PendingTimers :
                        \A other \in PendingTimers : due <= other
    /\ saraLog' = [saraLog EXCEPT !.last = "time"]
    /\ UNCHANGED <<sara, saraTimers, saraCalls, notSara>>

SaraNext ==
    \/ SaraScheduler_start
    \/ SaraScheduler_tick
    \/ \E outcome \in PulseOutcomes : SaraScheduler_pulseSettles(outcome)
    \/ \E due \in saraTimers.pauses : SaraScheduler_recover(due)
    \/ SaraScheduler_stop
    \/ SaraScheduler_stopPoll
    \/ SaraTimePasses

\* C33: SaraScheduler never runs two pulses at once: at every moment at most
\* one runIntegratedPulse call is in flight, and a timer tick that arrives
\* while a pulse is running is skipped and changes no metric.
C33_OnePulseAtATime ==
    [][ /\ saraLog'.inFlight <= 1
        /\ (sara.isProcessing /\ saraLog'.ticks = saraLog.ticks + 1) =>
              /\ sara'.metrics = sara.metrics
              /\ saraLog'.inFlight = saraLog.inFlight ]_vars

C33_Witness ==
    /\ saraLog.last = "tick in pulse"
    /\ saraLog.inFlight = 1
    /\ sara.metrics.totalPulses = 2
    /\ ~sara.shutdownRequested

\* C34: whenever maxConsecutiveErrors pulses in a row have failed, no pulse
\* runs until errorPauseDurationMs after the pause began; the error count is
\* then reset once, and nothing but a successful pulse or the end of that
\* pause (or a new start()) ever resets it.
C34_PauseThenResetOnce ==
    [][ /\ saraLog'.inFlight > saraLog.inFlight =>
              sara'.metrics.consecutiveErrors < sara.config.maxConsecutiveErrors
        /\ (/\ sara.metrics.consecutiveErrors > 0
            /\ sara'.metrics.consecutiveErrors = 0) =>
              \/ saraLog'.last \in { "research", "idle", "start" }
              \/ /\ saraLog'.last = "recover"
                 /\ saraLog.pauseBegan # -1
                 /\ saraClock =
                      saraLog.pauseBegan + sara.config.errorPauseDurationMs
      ]_vars

\* C35: once stop() has resolved, and until start() is called, no pulse is
\* in flight, none starts, and getState() returns STOPPED.
C35_StoppedStaysStopped ==
    saraLog.stopped =>
        /\ sara.state = "STOPPED"
        /\ saraLog.inFlight = 0
        /\ ~sara.isProcessing

\* C36: a stopped SaraScheduler can be started again: start() after stop()
\* runs its first pulse at once, as the first start() did.
C36_RestartPulsesAgain ==
    saraLog.last = "start" => saraLog.inFlight = 1

-----------------------------------------------------------------------------
(* HeartbeatScheduler: runCycle over the pulse machine, start and stop.    *)
(* Scores are in hundredths.                                                *)

MaxCycles == 3
MaxHeartCalls == 2

CycleCalls == 1..MaxCycles

\* The hours the clock passes through: two of the day, then the quiet hours
HeartHours == << 21, 22, 23 >>

\* The persona's heartbeat section
DefaultHeartbeat ==
    [ actionThreshold |-> 70, maxActionsPerHour |-> 3,
      quietHours |-> [ start |-> 23, end |-> 7 ] ]

HeartbeatOptions ==
    { DefaultHeartbeat,
      [DefaultHeartbeat EXCEPT !.actionThreshold = 80],
      [DefaultHeartbeat EXCEPT !.maxActionsPerHour = 1] }

\* new HeartbeatScheduler(options) at the given hour
HeartbeatScheduler(options, hour) ==
    [ options |-> options,
      pulseMachine |-> PulseStateMachine,
      timer |-> FALSE,
      stats |-> [ totalCycles |-> 0, actionCycles |-> 0, actionsThisHour |-> 0,
                  lastHourReset |-> hour, isRunning |-> FALSE,
                  lastCycleResult |-> NoCycleResult ] ]

isQuietHours(hb, hour) ==
    LET q == hb.options.quietHours
    IN  IF q.start > q.end
        THEN hour >= q.start \/ hour < q.end
        ELSE hour >= q.start /\ hour < q.end

resetHourlyCounterIfNeeded(hb, hour) ==
    IF hour # hb.stats.lastHourReset
    THEN [hb EXCEPT !.stats.actionsThisHour = 0, !.stats.lastHourReset = hour]
    ELSE hb

\* What onFetchContext resolves to: the length of openAugiContext (0 when
\* there is none)
ContextLengths == { 100, 101 }

\* generateCycleId, up to the renaming of ids: one cycle at a time bears one
HeartCycleIds == { "PULSE-1" }

\* InnerMonologue.evaluateDecision for the trigger heartbeat_cycle
evaluateDecision(openAugiLength) ==
    IF openAugiLength > 100
    THEN [ decision |-> "proactive_notification", riskLevel |-> "low",
           confidence |-> 70 ]
    ELSE [ decision |-> "defer", riskLevel |-> "low", confidence |-> 80 ]

InsightData(reflexion) ==
    [ valueScore |-> reflexion.confidence,
      urgencyScore |-> IF reflexion.riskLevel = "high" THEN 80 ELSE 50 ]

meetsActionThreshold(insight, valueThreshold, urgencyThreshold) ==
    \/ insight.valueScore >= valueThreshold
    \/ /\ insight.valueScore * 10 >= valueThreshold * 7
       /\ insight.urgencyScore >= urgencyThreshold

\* The test of runCycle that leads to the action state
takesAction(hb, reflexion) ==
    /\ reflexion.decision = "proactive_notification"
    /\ reflexion.confidence >= hb.options.actionThreshold
    /\ meetsActionThreshold(InsightData(reflexion), hb.options.actionThreshold, 50)
    /\ hb.stats.actionsThisHour < hb.options.maxActionsPerHour

\* A runCycle call: where it stands, who made it, the context it fetched,
\* whether a cycle was in flight when it was made and whether it left the
\* pulse machine and totalCycles as they were
NoCall ==
    [ pc |-> "idle", by |-> "none", outcome |-> "none", context |-> 0,
      overlapped |-> FALSE, afterStop |-> FALSE, untouched |-> TRUE ]

Awaiting == { "fetching", "reflecting", "notifying" }
InProgress == { c \in CycleCalls : cycles[c].pc \in Awaiting }
FreeCalls == { c \in CycleCalls : cycles[c].pc = "idle" }
NextCall == CHOOSE c \in FreeCalls : \A d \in FreeCalls : c <= d

\* What a call can see of the cycle in flight
Observed(hb) == << hb.pulseMachine, hb.stats.totalCycles >>

\* The catch block of runCycle: completeCycle(false), totalCycles++, rethrow
failCycle(hb) ==
    LET out == completeCycle(hb.pulseMachine, FALSE)
    IN  IF out.threw THEN hb
        ELSE [hb EXCEPT !.pulseMachine = out.machine,
                        !.stats.totalCycles = @ + 1]

\* The end of the try block: completeCycle, totalCycles++, lastCycleResult
finishCycle(hb, actionTaken) ==
    LET out == completeCycle(hb.pulseMachine, actionTaken)
    IN  IF out.threw
        THEN [ hb |-> failCycle(hb), outcome |-> "threw" ]
        ELSE [ hb |-> [hb EXCEPT !.pulseMachine = out.machine,
                                 !.stats.totalCycles = @ + 1,
                                 !.stats.lastCycleResult = out.result],
               outcome |-> "returned" ]

\* runCycle up to await onFetchContext(): the scheduler and the call after it
runCycle(hb, hour, by, id, stopReturned) ==
    LET call == [NoCall EXCEPT !.by = by, !.afterStop = stopReturned]
    IN  IF isQuietHours(hb, hour)
        THEN [ hb |-> hb,
               call |-> [call EXCEPT !.pc = "done", !.outcome = "skipped"] ]
        ELSE LET reset == resetHourlyCounterIfNeeded(hb, hour)
                 begun == startCycle(reset.pulseMachine, id)
                 inCycle == [reset EXCEPT !.pulseMachine = begun.machine]
                 toReflexion == transition(begun.machine, "reflexion")
                 seen == [call EXCEPT !.overlapped = isInCycle(hb.pulseMachine)]
             IN  IF begun.threw
                 THEN [ hb |-> reset,
                        call |-> [seen EXCEPT
                                   !.pc = "done", !.outcome = "rejected",
                                   !.untouched =
                                       Observed(reset) = Observed(hb)] ]
                 ELSE IF toReflexion.threw
                 THEN [ hb |-> failCycle(inCycle),
                        call |-> [seen EXCEPT
                                   !.pc = "done", !.outcome = "threw",
                                   !.untouched = Observed(failCycle(inCycle))
                                                   = Observed(hb)] ]
                 ELSE [ hb |-> [inCycle EXCEPT
                                   !.pulseMachine = toReflexion.machine],
                        call |-> [seen EXCEPT
                                   !.pc = "fetching",
                                   !.untouched =
                                       toReflexion.machine = hb.pulseMachine] ]

NoHeartLog ==
    [ starts |-> 0, stops |-> 0, hours |-> 1, stopReturned |-> FALSE,
      notified |-> 0, notifiedAfterStop |-> 0, last |-> "new" ]

HeartbeatInit ==
    /\ heartbeat \in { HeartbeatScheduler(options, HeartHours[1]) :
                          options \in HeartbeatOptions }
    /\ cycles = [c \in CycleCalls |-> NoCall]
    /\ heartHour = HeartHours[1]
    /\ heartLog = NoHeartLog

HeartbeatIdle ==
    /\ heartbeat = HeartbeatScheduler(DefaultHeartbeat, HeartHours[1])
    /\ cycles = [c \in CycleCalls |-> NoCall]
    /\ heartHour = HeartHours[1]
    /\ heartLog = NoHeartLog

\* One runCycle call made: by start(), by the interval, or from outside
called(by, id) ==
    LET run == runCycle(heartbeat, heartHour, by, id, heartLog.stopReturned)
    IN  [ hb |-> run.hb, cycles |-> [cycles EXCEPT ![NextCall] = run.call] ]

\* start(): nothing when running; else isRunning, a first runCycle, the timer
HeartbeatScheduler_start(id) ==
    /\ heartLog.starts < MaxHeartCalls
    /\ FreeCalls # {}
    /\ IF heartbeat.stats.isRunning
       THEN UNCHANGED <<heartbeat, cycles>>
       ELSE LET run == runCycle([heartbeat EXCEPT !.stats.isRunning = TRUE],
                                heartHour, "start", id, FALSE)
            IN  /\ heartbeat' = [run.hb EXCEPT !.timer = TRUE]
                /\ cycles' = [cycles EXCEPT ![NextCall] = run.call]
    /\ heartLog' = [heartLog EXCEPT !.starts = @ + 1, !.stopReturned = FALSE,
                                    !.last = "start"]
    /\ UNCHANGED <<heartHour, notHeartbeat>>

\* The setInterval callback
HeartbeatScheduler_tick(id) ==
    /\ heartbeat.timer
    /\ FreeCalls # {}
    /\ LET run == called("tick", id)
       IN  /\ heartbeat' = run.hb
           /\ cycles' = run.cycles
    /\ heartLog' = [heartLog EXCEPT !.last = "tick"]
    /\ UNCHANGED <<heartHour, notHeartbeat>>

\* runCycle() called from outside
HeartbeatScheduler_runCycle(id) ==
    /\ FreeCalls # {}
    /\ LET run == called("call", id)
       IN  /\ heartbeat' = run.hb
           /\ cycles' = run.cycles
    /\ heartLog' = [heartLog EXCEPT !.last = "call"]
    /\ UNCHANGED <<heartHour, notHeartbeat>>

\* The call as it ends in the catch block
Failed(c) ==
    /\ heartbeat' = failCycle(heartbeat)
    /\ cycles' = [cycles EXCEPT ![c].pc = "done", ![c].context = 0,
                                ![c].outcome = "threw"]

\* onFetchContext settles: on a context, reflect() runs up to its await
RunCycle_fetched(c, context, throws) ==
    /\ cycles[c].pc = "fetching"
    /\ IF throws THEN Failed(c)
       ELSE /\ cycles' = [cycles EXCEPT ![c].pc = "reflecting",
                                        ![c].context = context]
            /\ UNCHANGED heartbeat
    /\ heartLog' = [heartLog EXCEPT !.last = "fetched"]
    /\ UNCHANGED <<heartHour, notHeartbeat>>

\* reflect() settles: the action state and the notification, or the end
RunCycle_reflected(c, throws) ==
    /\ cycles[c].pc = "reflecting"
    /\ LET reflexion == evaluateDecision(cycles[c].context)
           toAction == transition(heartbeat.pulseMachine, "action")
           end == finishCycle(heartbeat, FALSE)
       IN  IF throws
           THEN Failed(c) /\ heartLog' = [heartLog EXCEPT !.last = "reflected"]
           ELSE IF takesAction(heartbeat, reflexion)
           THEN IF toAction.threw
                THEN /\ Failed(c)
                     /\ heartLog' = [heartLog EXCEPT !.last = "reflected"]
                ELSE /\ heartbeat' =
                          [heartbeat EXCEPT !.pulseMachine = toAction.machine]
                     /\ cycles' = [cycles EXCEPT ![c].pc = "notifying",
                                                 ![c].context = 0]
                     /\ heartLog' =
                          [heartLog EXCEPT
                              !.last = "notify",
                              !.notified = @ + 1,
                              !.notifiedAfterStop =
                                  IF heartLog.stopReturned
                                     /\ cycles[c].by # "call"
                                  THEN @ + 1 ELSE @]
           ELSE /\ heartbeat' = end.hb
                /\ cycles' = [cycles EXCEPT ![c].pc = "done",
                                            ![c].context = 0,
                                            ![c].outcome = end.outcome]
                /\ heartLog' = [heartLog EXCEPT !.last = "reflected"]
    /\ UNCHANGED <<heartHour, notHeartbeat>>

\* onProactiveNotification settles
RunCycle_notified(c, throws) ==
    /\ cycles[c].pc = "notifying"
    /\ IF throws THEN Failed(c)
       ELSE LET counted == [heartbeat EXCEPT !.stats.actionsThisHour = @ + 1,
                                             !.stats.actionCycles = @ + 1]
                end == finishCycle(counted, TRUE)
            IN  /\ heartbeat' = end.hb
                /\ cycles' = [cycles EXCEPT ![c].pc = "done",
                                            ![c].outcome = end.outcome]
    /\ heartLog' = [heartLog EXCEPT !.last = "notified"]
    /\ UNCHANGED <<heartHour, notHeartbeat>>

\* stop(): nothing when not running; else clearInterval, isRunning = false
HeartbeatScheduler_stop ==
    /\ heartLog.stops < MaxHeartCalls
    /\ heartbeat' = IF heartbeat.stats.isRunning
                    THEN [heartbeat EXCEPT !.timer = FALSE,
                                           !.stats.isRunning = FALSE]
                    ELSE heartbeat
    /\ heartLog' = [heartLog EXCEPT !.stops = @ + 1, !.stopReturned = TRUE,
                                    !.last = "stop"]
    /\ UNCHANGED <<cycles, heartHour, notHeartbeat>>

\* The clock reaches the next hour
HeartHourPasses ==
    /\ heartLog.hours < Len(HeartHours)
    /\ heartHour' = HeartHours[heartLog.hours + 1]
    /\ heartLog' = [heartLog EXCEPT !.hours = @ + 1, !.last = "hour"]
    /\ UNCHANGED <<heartbeat, cycles, notHeartbeat>>

HeartbeatNext ==
    \/ \E id \in HeartCycleIds : HeartbeatScheduler_start(id)
    \/ \E id \in HeartCycleIds : HeartbeatScheduler_tick(id)
    \/ \E id \in HeartCycleIds : HeartbeatScheduler_runCycle(id)
    \/ \E c \in CycleCalls, context \in ContextLengths, throws \in BOOLEAN :
          RunCycle_fetched(c, context, throws)
    \/ \E c \in CycleCalls, throws \in BOOLEAN : RunCycle_reflected(c, throws)
    \/ \E c \in CycleCalls, throws \in BOOLEAN : RunCycle_notified(c, throws)
    \/ HeartbeatScheduler_stop
    \/ HeartHourPasses

C38_NothingAfterStop ==
    /\ heartLog.notifiedAfterStop = 0
    /\ \A c \in CycleCalls :
          cycles[c].by \in { "start", "tick" } => ~cycles[c].afterStop

-----------------------------------------------------------------------------
(* JournalWriter: one markdown file per entry, named after the minute       *)

MaxWrites == 3
MaxJournalTime == 90

\* Time passes in steps of this many seconds
JournalStep == 30

\* Two decimal digits, as String(n).padStart(2, '0')
padStart2(n) == << n \div 10, n % 10 >>

\* getTimestamp: YYYY-MM-DD-HHmm of the local time; the date is within
\* January 2026
getTimestamp(now) ==
    [ year |-> 2026,
      month |-> padStart2(1),
      day |-> padStart2(1 + (now \div 86400)),
      hour |-> padStart2((now \div 3600) % 24),
      minute |-> padStart2((now \div 60) % 60) ]

\* The entries handed to write(): type and title stand for the whole entry
JournalEntries ==
    { [ type |-> "reflection", title |-> "Reflexao: A" ],
      [ type |-> "question", title |-> "Questao: B" ] }

\* generateMarkdown: front matter with the timestamp, then the entry
generateMarkdown(entry, timestamp) ==
    [ date |-> timestamp, entry |-> entry ]

\* `${timestamp}.md` under the journal directory
JournalFile(timestamp) == << "journal", timestamp, ".md" >>

\* writeFileSync(filepath, markdown): the file is made, or replaced
writeFileSync(files, filepath, markdown) ==
    { f \in files : f.path # filepath }
        \cup { [ path |-> filepath, content |-> markdown ] }

\* new JournalWriter(config)
JournalWriter(dryRun) == [ dryRun |-> dryRun, entriesWritten |-> 0 ]

NoJournalFs == [ dir |-> FALSE, files |-> {} ]

JournalInit ==
    /\ journalWriter \in { JournalWriter(dryRun) : dryRun \in BOOLEAN }
    /\ journalFs = NoJournalFs
    /\ journalClock = 0
    /\ journalLog = << >>

JournalIdle ==
    /\ journalWriter = JournalWriter(FALSE)
    /\ journalFs = NoJournalFs
    /\ journalClock = 0
    /\ journalLog = << >>

\* write(entry): the path is returned in a dry run; otherwise the directory
\* is made, the file is written, and an error of writeFileSync is rethrown
JournalWriter_write(entry, fails) ==
    /\ Len(journalLog) < MaxWrites
    /\ LET timestamp == getTimestamp(journalClock)
           filepath == JournalFile(timestamp)
           markdown == generateMarkdown(entry, timestamp)
           call == [ path |-> filepath, markdown |-> markdown,
                     outcome |-> IF journalWriter.dryRun THEN "dry run"
                                 ELSE IF fails THEN "threw" ELSE "written" ]
       IN  /\ journalLog' = Append(journalLog, call)
           /\ IF journalWriter.dryRun
              THEN UNCHANGED <<journalWriter, journalFs>>
              ELSE IF fails
              THEN /\ journalFs' = [journalFs EXCEPT !.dir = TRUE]
                   /\ UNCHANGED journalWriter
              ELSE /\ journalFs' =
                        [journalFs EXCEPT
                            !.dir = TRUE,
                            !.files = writeFileSync(@, filepath, markdown)]
                   /\ journalWriter' =
                        [journalWriter EXCEPT !.entriesWritten = @ + 1]
    /\ UNCHANGED <<journalClock, notJournal>>

JournalTimePasses ==
    /\ journalClock + JournalStep <= MaxJournalTime
    /\ journalClock' = journalClock + JournalStep
    /\ UNCHANGED <<journalWriter, journalFs, journalLog, notJournal>>

JournalNext ==
    \/ \E entry \in JournalEntries, fails \in BOOLEAN :
          JournalWriter_write(entry, fails)
    \/ JournalTimePasses

\* The calls of write() that wrote a file
Written == { i \in 1..Len(journalLog) : journalLog[i].outcome = "written" }

\* C39: the journal is append-only with one file per entry: every write
\* that is not a dry run makes a new file and leaves the entries written
\* before as they are, so after n successful writes, however close in time,
\* there are n journal files.
C39_OneFilePerEntry ==
    /\ Cardinality(journalFs.files) = Cardinality(Written)
    /\ \A i \in Written :
          [ path |-> journalLog[i].path,
            content |-> journalLog[i].markdown ] \in journalFs.files

-----------------------------------------------------------------------------
(* Whisper: what is done with an insight of a given score                   *)

MaxInsights == 2

InsightScores == 1..10
InsightCalls == 1..MaxInsights

DEFAULT_WHISPER_CONFIG ==
    [ journalThreshold |-> 7, notifyThreshold |-> 10, dryRun |-> TRUE ]

WhisperConfigs ==
    { [DEFAULT_WHISPER_CONFIG EXCEPT !.dryRun = dryRun,
                                     !.journalThreshold = t[1],
                                     !.notifyThreshold = t[2]] :
        dryRun \in BOOLEAN, t \in { << 7, 10 >>, << 5, 8 >>, << 9, 5 >> } }

\* new Whisper(config): its own JournalWriter, no notification, the counters
Whisper(config) ==
    [ config |-> config,
      journalWriter |-> JournalWriter(config.dryRun),
      pendingNotifications |-> << >>,
      insightsProcessed |-> 0, notificationsSent |-> 0, journalEntries |-> 0 ]

determineAction_JournalFirst(config, score) ==
    IF score >= config.journalThreshold THEN "journal"
    ELSE IF score >= config.notifyThreshold THEN "notify"
    ELSE "silent"

determineAction(config, score) ==
    IF score >= config.notifyThreshold THEN "notify"
    ELSE IF score >= config.journalThreshold THEN "journal"
    ELSE "silent"

\* createNotification: the notification, pending
ProactiveNotification(score) ==
    [ insightScore |-> score,
      priority |-> IF score = 10 THEN "high" ELSE "medium",
      status |-> "pending" ]

\* A process() call: where it stands, the insight's score, and what it
\* returns: the action, whether journalPath is defined, the notification
\* (its place in pendingNotifications, 0 when undefined)
NoProcess ==
    [ pc |-> "idle", score |-> 0, action |-> "none", journalPath |-> FALSE,
      notification |-> 0 ]

WhisperInit ==
    /\ whisper \in { Whisper(config) : config \in WhisperConfigs }
    /\ whisperCalls = [i \in InsightCalls |-> NoProcess]

WhisperIdle ==
    /\ whisper = Whisper(DEFAULT_WHISPER_CONFIG)
    /\ whisperCalls = [i \in InsightCalls |-> NoProcess]

\* process(insight) up to its first await: the counter, the action, and for
\* journal and notify the call of journalWriter.write inside writeToJournal,
\* which writes unless in a dry run, or throws
Whisper_process(i, score, fails) ==
    /\ whisperCalls[i].pc = "idle"
    /\ \A j \in InsightCalls : j < i => whisperCalls[j].pc # "idle"
    /\ LET action == determineAction(whisper.config, score)
           counted == [whisper EXCEPT !.insightsProcessed = @ + 1]
           call == [whisperCalls[i] EXCEPT !.score = score, !.action = action]
       IN  IF action = "silent"
           THEN /\ whisper' = counted
                /\ whisperCalls' = [whisperCalls EXCEPT ![i] =
                                       [call EXCEPT !.pc = "done"]]
           ELSE IF fails /\ ~whisper.config.dryRun
           THEN /\ whisper' = counted
                /\ whisperCalls' = [whisperCalls EXCEPT ![i] =
                                       [call EXCEPT !.pc = "threw",
                                                    !.action = "none"]]
           ELSE /\ whisper' =
                     [counted EXCEPT !.journalWriter.entriesWritten =
                         IF whisper.config.dryRun THEN @ ELSE @ + 1]
                /\ whisperCalls' = [whisperCalls EXCEPT ![i] =
                                       [call EXCEPT !.pc = "journaled",
                                                    !.journalPath = TRUE]]
    /\ UNCHANGED notWhisper

\* After await writeToJournal: journalEntries++, and for notify the
\* notification is created and pushed
Whisper_journaled(i) ==
    /\ whisperCalls[i].pc = "journaled"
    /\ LET counted == [whisper EXCEPT !.journalEntries = @ + 1]
       IN  IF whisperCalls[i].action = "journal"
           THEN /\ whisper' = counted
                /\ whisperCalls' = [whisperCalls EXCEPT ![i].pc = "done"]
           ELSE /\ whisper' =
                     [counted EXCEPT !.pendingNotifications =
                         Append(@, ProactiveNotification(whisperCalls[i].score))]
                /\ whisperCalls' =
                     [whisperCalls EXCEPT
                         ![i].pc = "created",
                         ![i].notification =
                             Len(whisper.pendingNotifications) + 1]
    /\ UNCHANGED notWhisper

\* After await createNotification: sendNotification marks it sent
Whisper_created(i) ==
    /\ whisperCalls[i].pc = "created"
    /\ whisper' = [whisper EXCEPT
           !.pendingNotifications[whisperCalls[i].notification].status = "sent"]
    /\ whisperCalls' = [whisperCalls EXCEPT ![i].pc = "sent"]
    /\ UNCHANGED notWhisper

\* After await sendNotification: notificationsSent++, return
Whisper_sent(i) ==
    /\ whisperCalls[i].pc = "sent"
    /\ whisper' = [whisper EXCEPT !.notificationsSent = @ + 1]
    /\ whisperCalls' = [whisperCalls EXCEPT ![i].pc = "done"]
    /\ UNCHANGED notWhisper

WhisperNext ==
    \/ \E i \in InsightCalls, score \in InsightScores, fails \in BOOLEAN :
          Whisper_process(i, score, fails)
    \/ \E i \in InsightCalls : Whisper_journaled(i)
    \/ \E i \in InsightCalls : Whisper_created(i)
    \/ \E i \in InsightCalls : Whisper_sent(i)

\* The process() calls that have returned
ProcessReturned == { i \in InsightCalls : whisperCalls[i].pc = "done" }

\* The notification a call returned was created and sent
NotificationSent(i) ==
    /\ whisperCalls[i].notification # 0
    /\ whisper.pendingNotifications[whisperCalls[i].notification].status = "sent"
    /\ whisper.pendingNotifications[whisperCalls[i].notification].insightScore
         = whisperCalls[i].score

\* C40: for every score s, process returns notify iff s >= notifyThreshold,
\* journal iff journalThreshold <= s < notifyThreshold, silent otherwise; a
\* journal entry is written exactly for journal and notify, a notification
\* is created and sent exactly for notify.
C40_ActionByThreshold ==
    /\ \A i \in ProcessReturned :
          LET s == whisperCalls[i].score
              action == whisperCalls[i].action
              c == whisper.config
          IN  /\ action \in { "notify", "journal", "silent" }
              /\ action = "notify" <=> s >= c.notifyThreshold
              /\ action = "journal" <=>
                    (c.journalThreshold <= s /\ s < c.notifyThreshold)
              /\ whisperCalls[i].journalPath <=> action \in { "journal", "notify" }
              /\ NotificationSent(i) <=> action = "notify"
              /\ whisperCalls[i].notification # 0 <=> action = "notify"
    /\ (\A i \in InsightCalls : whisperCalls[i].pc \in { "idle", "done", "threw" }) =>
          /\ whisper.journalEntries =
               Cardinality({ i \in ProcessReturned :
                               whisperCalls[i].action \in { "journal", "notify" } })
          /\ whisper.notificationsSent =
               Cardinality({ i \in ProcessReturned :
                               whisperCalls[i].action = "notify" })
          /\ ~whisper.config.dryRun =>
                whisper.journalWriter.entriesWritten = whisper.journalEntries

C40_Witness ==
    /\ whisper.config = [DEFAULT_WHISPER_CONFIG EXCEPT !.dryRun = FALSE]
    /\ whisperCalls[1].pc = "done" /\ whisperCalls[1].score = 9
    /\ whisperCalls[1].action = "journal"
    /\ whisperCalls[2].pc = "done" /\ whisperCalls[2].score = 10
    /\ whisperCalls[2].action = "notify"
    /\ whisper.notificationsSent = 1

-----------------------------------------------------------------------------
(* Specifications: one per component, the other components at rest          *)

ShieldIdle ==
    /\ SandboxIdle /\ BrowserIdle /\ CensorIdle /\ AuditIdle
    /\ GatewayIdle /\ SinkIdle /\ JailIdle /\ FilterIdle

HeartIdle ==
    PulseIdle /\ SaraIdle /\ HeartbeatIdle /\ JournalIdle /\ WhisperIdle

PulseSpecInit ==
    PulseInit /\ ShieldIdle /\ SaraIdle /\ HeartbeatIdle /\ JournalIdle
    /\ WhisperIdle
PulseSpec == PulseSpecInit /\ [][PulseNext]_vars

SaraSpecInit ==
    SaraInit /\ ShieldIdle /\ PulseIdle /\ HeartbeatIdle /\ JournalIdle
    /\ WhisperIdle
SaraSpec == SaraSpecInit /\ [][SaraNext]_vars

HeartbeatSpecInit ==
    HeartbeatInit /\ ShieldIdle /\ PulseIdle /\ SaraIdle /\ JournalIdle
    /\ WhisperIdle
HeartbeatSpec == HeartbeatSpecInit /\ [][HeartbeatNext]_vars

JournalSpecInit ==
    JournalInit /\ ShieldIdle /\ PulseIdle /\ SaraIdle /\ HeartbeatIdle
    /\ WhisperIdle
JournalSpec == JournalSpecInit /\ [][JournalNext]_vars

WhisperSpecInit ==
    WhisperInit /\ ShieldIdle /\ PulseIdle /\ SaraIdle /\ HeartbeatIdle
    /\ JournalIdle
WhisperSpec == WhisperSpecInit /\ [][WhisperNext]_vars

SandboxSpecInit ==
    /\ SandboxInit /\ BrowserIdle /\ CensorIdle
    /\ AuditIdle /\ GatewayIdle /\ SinkIdle /\ JailIdle
    /\ FilterIdle
    /\ HeartIdle
SandboxSpec == SandboxSpecInit /\ [][SandboxNext]_vars

BrowserSpecInit ==
    /\ BrowserInit /\ SandboxIdle /\ CensorIdle
    /\ AuditIdle /\ GatewayIdle /\ SinkIdle /\ JailIdle
    /\ FilterIdle
    /\ HeartIdle
BrowserSpec == BrowserSpecInit /\ [][BrowserNext]_vars

CensorSpecInit ==
    /\ CensorInit /\ AuditIdle /\ SandboxIdle
    /\ BrowserIdle /\ GatewayIdle /\ SinkIdle /\ JailIdle
    /\ FilterIdle
    /\ HeartIdle
CensorSpec == CensorSpecInit /\ [][CensorNext]_vars

CustomSpecInit ==
    /\ CustomInit /\ AuditIdle /\ SandboxIdle
    /\ BrowserIdle /\ GatewayIdle /\ SinkIdle /\ JailIdle
    /\ FilterIdle
    /\ HeartIdle
CustomSpec == CustomSpecInit /\ [][CustomNext]_vars

GatewaySpecInit ==
    /\ GatewayInit /\ MiddlewareInit /\ AuditIdle
    /\ SinkIdle /\ SandboxIdle /\ BrowserIdle /\ JailIdle
    /\ FilterIdle
    /\ HeartIdle
GatewaySpec == GatewaySpecInit /\ [][GatewayNext]_vars

AuditSpecInit ==
    /\ AuditInit /\ CensorIdle /\ SinkIdle
    /\ SandboxIdle /\ BrowserIdle /\ GatewayIdle /\ JailIdle
    /\ FilterIdle
    /\ HeartIdle
AuditSpec == AuditSpecInit /\ [][AuditNext]_vars

JailSpecInit ==
    /\ JailInit /\ SandboxIdle /\ BrowserIdle /\ CensorIdle /\ AuditIdle
    /\ GatewayIdle /\ SinkIdle /\ FilterIdle
    /\ HeartIdle
JailSpec == JailSpecInit /\ [][JailNext]_vars

FilterSpecInit ==
    /\ FilterInit /\ SandboxIdle /\ BrowserIdle /\ CensorIdle /\ AuditIdle
    /\ GatewayIdle /\ SinkIdle /\ JailIdle
    /\ HeartIdle
FilterSpec == FilterSpecInit /\ [][FilterNext]_vars

Init ==
    /\ SandboxInit /\ BrowserInit /\ GatewayInit /\ SinkIdle /\ AuditInit
    /\ JailInit /\ FilterInit /\ PulseInit /\ SaraInit
    /\ HeartbeatInit /\ JournalInit /\ WhisperInit
    /\ (CensorInit \/ MiddlewareInit \/ CustomInit)

Next == SandboxNext \/ BrowserNext \/ CensorNext \/ GatewayNext \/ AuditNext
          \/ JailNext \/ FilterNext \/ CustomNext \/ PulseNext
          \/ SaraNext \/ HeartbeatNext \/ JournalNext \/ WhisperNext

Spec == Init /\ [][Next]_vars

=============================================================================
